---- MODULE Spec2Model ----
(***************************************************************************)
(* Conversation streaming and tool-call orchestration of surf.new:         *)
(*   - stream_vercel_format (api/streamer.py), the re-encoder that turns   *)
(*     an agent's events into the line-framed wire protocol;               *)
(*   - base_agent (api/plugins/base/agent.py), the LangChain tool loop;    *)
(*   - openai_computer_use_agent (api/plugins/openai_computer_use/agent.py)*)
(* Each agent is composed with the re-encoder the way handle_chat wires    *)
(* them: every value the agent yields is consumed by stream_vercel_format. *)
(***************************************************************************)
EXTENDS Integers, Sequences, FiniteSets, TLC

VARIABLES
    wire,                \* the lines stream_vercel_format has yielded, in order
    draft_tool_calls,    \* streamer.py:25  index -> {id, name, arguments}
    pending_tool_calls,  \* streamer.py:26  set of tool-call ids
    spc,                 \* position of stream_vercel_format: "iter" | "done"
    log,                 \* history: the chunks the source has delivered
    exc,                 \* history: message of the exception the source raised
    cancel,              \* cancel_event.is_set()
    bpc,                 \* position of base_agent
    resp,                \* the chunks the current astream() has yet to deliver
    gathered,            \* base/agent.py:36  the chunks added up so far, or None
    base_messages,       \* base/agent.py:29
    tool_calls,          \* base/agent.py:64  the tool calls the for loop has yet to run
    scripts,             \* history: the responses the model has streamed
    streams,             \* history: number of model calls started
    invocations,         \* history: number of tool invocations / actions started
    cpc,                 \* position of openai_computer_use_agent
    steps,               \* openai_computer_use/agent.py:325
    new_items,           \* agent.py:410  the items the for loop has yet to process
    conversation_items,  \* agent.py:271
    callFailed,          \* history: message of the failed model call
    self_items,          \* conversation_manager.py:26  ConversationManager.items
    num_images_to_keep,  \* conversation_manager.py:27
    mpc,                 \* position of the user of the ConversationManager
    self_items0,         \* history: self_items before the last trim_images
    messages,            \* claude_steel_use/agent.py:53  argument of trim_images_from_messages
    keep_arg,            \* claude_steel_use/agent.py:53  argument num_images_to_keep
    trimmed_messages,    \* the list trim_images_from_messages returns
    fpc,                 \* position of the caller of trim_images_from_messages
    page_closed,         \* steel_computer.py:205  page.is_closed()
    page_url,            \* steel_computer.py:281  page.url
    xpc,                 \* position of SteelComputer.execute_action
    action,              \* steel_computer.py:190  the action being executed
    outcome,             \* what execute_action has given its caller
    performed,           \* history: the steps of the action have been performed
    thrown,              \* history: message of the exception raised inside the call
    closed_at_call,      \* history: the page was closed when the call began
    shots,               \* history: number of screenshots taken
    agent_resumed,       \* browser_use/agent.py:37  the global _agent_resumed
    agent_paused,        \* agent._paused of the agent of this browser_use_agent
    controller_agent,    \* browser_use/agent.py:44  controller.agent: "ours" | "other" | None
    queue,               \* browser_use/agent.py:222
    pending_special_messages,  \* browser_use/agent.py:325
    has_pending_messages,      \* browser_use/agent.py:328
    lpc,                 \* position of the streaming loop of browser_use_agent
    data,                \* browser_use/agent.py:342  the item dequeued
    release_left,        \* the pending messages the releasing for loop has yet to yield
    yielded,             \* history: what the loop has yielded
    deferred_log,        \* history: serial numbers of the commentary messages deferred
    serial,              \* history: number of commentary messages enqueued
    callbacks,           \* history: number of step callbacks
    pauses,              \* history: number of pause requests
    resumes,             \* history: number of times resume_execution took effect
    sleeping,            \* number of resume_execution calls in their sleep (line 141)
    starts,              \* history: number of other browser_use_agent starts
    controller_session_id,  \* browser_use/agent.py:43  controller.session_id
    active_browsers,     \* browser_use/agent.py:33-34  active_browsers and active_browser_contexts
    agent_tasks,         \* history: the agent tasks running, per session id
    request,             \* history: the latest pause, resume or start, and its session id
    pause_result,        \* the status pause_execution_manually returned last
    clock,               \* time.time(), in tenths of a second
    session_last_resume, \* index.py:40  <<>> or <<t>>, for the one session id
    session_locks,       \* index.py:39  the holder of the session's lock, 0 when free
    rpc,                 \* position of each resume_session call
    call_now,            \* index.py:97  the local now of each call
    since,               \* the time at which each call began its current wait
    status,              \* the status each call returned
    wait_for_suspends,   \* index.py:116  whether wait_for suspends on a free lock
    attempts,            \* index.py:138  the resume_execution calls each call has made
    last_error,          \* index.py:136  whether an attempt of the call has raised
    steel_sessions,      \* the Steel service: each session id "live" or "released"
    releases,            \* history: number of release_session calls
    release_call,        \* history: the latest release_session call and what the client did
    release_response     \* what the latest release_session call answered

streamVars == <<wire, draft_tool_calls, pending_tool_calls, spc, log, exc>>
baseVars == <<bpc, resp, gathered, base_messages, tool_calls, scripts>>
envVars == <<cancel, streams, invocations>>
cuaVars == <<cpc, steps, new_items, conversation_items, callFailed>>
chatVars == <<streamVars, baseVars, envVars, cuaVars>>
trimVars == <<self_items, num_images_to_keep, mpc, self_items0>>
msgTrimVars == <<messages, keep_arg, trimmed_messages, fpc>>
computerVars ==
    <<page_closed, page_url, xpc, action, outcome, performed, thrown, closed_at_call, shots>>
browserVars ==
    <<agent_resumed, agent_paused, controller_agent, queue, pending_special_messages,
      has_pending_messages, lpc, data, release_left, yielded, deferred_log, serial,
      callbacks, pauses, resumes, sleeping, starts, controller_session_id,
      active_browsers, agent_tasks, request, pause_result>>
registryVars == <<controller_session_id, active_browsers, agent_tasks, request, pause_result>>
resumeVars ==
    <<clock, session_last_resume, session_locks, rpc, call_now, since, status,
      wait_for_suspends, attempts, last_error>>
releaseVars == <<steel_sessions, releases, release_call, release_response>>
libVars == <<trimVars, msgTrimVars, computerVars, browserVars, resumeVars, releaseVars>>

\* What the steps of one component leave alone of the other components.
notStream == <<baseVars, envVars, cuaVars, libVars>>
notBase == <<cuaVars, libVars>>
notCua == <<baseVars, libVars>>
notTrim ==
    <<chatVars, msgTrimVars, computerVars, browserVars, resumeVars, releaseVars>>
notMsgTrim ==
    <<chatVars, trimVars, computerVars, browserVars, resumeVars, releaseVars>>
notComputer ==
    <<chatVars, trimVars, msgTrimVars, browserVars, resumeVars, releaseVars>>
notBrowser ==
    <<chatVars, trimVars, msgTrimVars, computerVars, resumeVars, releaseVars>>
notRelease == <<chatVars, trimVars, msgTrimVars, computerVars, browserVars, resumeVars>>
notResume ==
    <<chatVars, trimVars, msgTrimVars, computerVars, controller_agent, queue,
      pending_special_messages, has_pending_messages, lpc, data, release_left, yielded,
      deferred_log, serial, callbacks, pauses, starts, registryVars, releaseVars>>

(***************************************************************************)
(* Bounds of the model.                                                    *)
(***************************************************************************)
MaxChunks == 3
MaxModelCalls == 2

(***************************************************************************)
(* Values.                                                                 *)
(***************************************************************************)
\* Python's None (falsy, as an id, a name or an index).
None == "None"

\* Argument text is a sequence of characters over this alphabet.
Chars == {"{", "}", " "}

Indexes == {"0", "1"}
Ids == {"t1", "t2"}

\* chunk.content: a plain string, or a list of content items.
StrContent(t) == [isList |-> FALSE, text |-> t, items |-> <<>>]
ListContent(its) == [isList |-> TRUE, text |-> "", items |-> its]
TextItem(t) == [type |-> "text", text |-> t]
OtherItem == [type |-> "tool_use", text |-> ""]

\* Python truthiness of chunk.content.
Truthy(content) == IF content.isList THEN content.items # <<>> ELSE content.text # ""

\* One entry of chunk.tool_call_chunks.
TC(index, id, name, args) == [index |-> index, id |-> id, name |-> name, args |-> args]
\* One entry of chunk.tool_calls.
Call(id, name, args) == [id |-> id, name |-> name, args |-> args]

\* The values the source may deliver.  kind "ai" is an AIMessage/AIMessageChunk,
\* "tool" a ToolMessage, "dict" the {"stop": True} marker, "str" a plain string.
AIChunk(content, tcs, calls) ==
    [kind |-> "ai", stop |-> FALSE, content |-> content, tool_call_chunks |-> tcs,
     tool_calls |-> calls, tool_call_id |-> None]
ToolMessage(id, content) ==
    [kind |-> "tool", stop |-> FALSE, content |-> content, tool_call_chunks |-> <<>>,
     tool_calls |-> <<>>, tool_call_id |-> id]
StopDict ==
    [kind |-> "dict", stop |-> TRUE, content |-> StrContent(""), tool_call_chunks |-> <<>>,
     tool_calls |-> <<>>, tool_call_id |-> None]
Str(t) ==
    [kind |-> "str", stop |-> FALSE, content |-> StrContent(t), tool_call_chunks |-> <<>>,
     tool_calls |-> <<>>, tool_call_id |-> None]

(***************************************************************************)
(* json: loads() restricted to the alphabet Chars, dumps() as a tagged     *)
(* encoding of its argument.                                               *)
(***************************************************************************)
RECURSIVE LStrip(_)
LStrip(s) == IF s # <<>> /\ Head(s) = " " THEN LStrip(Tail(s)) ELSE s

RECURSIVE RStrip(_)
RStrip(s) == IF s # <<>> /\ s[Len(s)] = " " THEN RStrip(SubSeq(s, 1, Len(s) - 1)) ELSE s

\* TRUE iff json.loads(s) returns, i.e. s is whitespace, "{", whitespace, "}", whitespace.
JsonLoads(s) ==
    LET t == RStrip(LStrip(s))
    IN  /\ Len(t) >= 2
        /\ t[1] = "{"
        /\ t[Len(t)] = "}"
        /\ \A i \in 2..(Len(t) - 1) : t[i] = " "

JsonDumps(x) == <<"json", x>>

(***************************************************************************)
(* Wire events.                                                            *)
(***************************************************************************)
\* 9:{"toolCallId":id,"toolName":name,"args":args}
Ev9(id, name, args) == [tag |-> "9", toolCallId |-> id, toolName |-> name, args |-> args]
\* a:{"toolCallId":id,"result":result}
EvA(id, result) == [tag |-> "a", toolCallId |-> id, result |-> result]
\* 0:text
Ev0(text) == [tag |-> "0", text |-> text]
\* 3:message
Ev3(msg) == [tag |-> "3", message |-> msg]
\* e:{"finishReason":"tool-calls","usage":{...}}
EvToolCallsFinish == [tag |-> "e", finishReason |-> "tool-calls", isContinued |-> None]
\* e:{"finishReason":"stop","usage":{...},"isContinued":false}
EvFinalFinish == [tag |-> "e", finishReason |-> "stop", isContinued |-> "false"]

(***************************************************************************)
(* stream_vercel_format: the body of the async-for loop as a function of   *)
(* the generator's local state st = [wire, draft, pending] and the chunk.  *)
(***************************************************************************)
Emit(st, ev) == [st EXCEPT !.wire = Append(@, ev)]

Put(f, k, v) == [x \in (DOMAIN f) \cup {k} |-> IF x = k THEN v ELSE f[x]]

\* streamer.py:46-52
InitDraft(st, tc) ==
    IF tc.index \notin DOMAIN st.draft /\ tc.id # None
    THEN [st EXCEPT !.draft = Put(@, tc.index,
                                  [id |-> tc.id, name |-> tc.name, arguments |-> <<>>]),
                    !.pending = @ \cup {tc.id}]
    ELSE st

\* A mutant of AppendArgs: the draft is announced without validating its arguments.
AppendArgsUnchecked(st, tc) ==
    IF tc.args # <<>> /\ tc.index \in DOMAIN st.draft
    THEN LET s2 == [st EXCEPT !.draft[tc.index].arguments = @ \o tc.args]
             tool_call == s2.draft[tc.index]
         IN  IF tool_call.id # None /\ tool_call.name # None /\ tool_call.arguments # <<>>
             THEN Emit(s2, Ev9(tool_call.id, tool_call.name, tool_call.arguments))
             ELSE s2
    ELSE st

\* streamer.py:55-78
AppendArgs(st, tc) ==
    IF tc.args # <<>> /\ tc.index \in DOMAIN st.draft
    THEN LET s2 == [st EXCEPT !.draft[tc.index].arguments = @ \o tc.args]
             tool_call == s2.draft[tc.index]
         IN  IF /\ tool_call.id # None
                /\ tool_call.name # None
                /\ tool_call.arguments # <<>>
                /\ JsonLoads(tool_call.arguments)
             THEN Emit(s2, Ev9(tool_call.id, tool_call.name, tool_call.arguments))
             ELSE s2
    ELSE st

\* streamer.py:41-78, one tool_chunk
ToolChunk(st, tc) ==
    IF tc.index # None THEN AppendArgs(InitDraft(st, tc), tc) ELSE st

\* streamer.py:40
RECURSIVE ToolCallChunks(_, _)
ToolCallChunks(st, tcs) ==
    IF tcs = <<>> THEN st ELSE ToolCallChunks(ToolChunk(st, Head(tcs)), Tail(tcs))

\* streamer.py:84-86 and 118-120
RECURSIVE TextItems(_, _)
TextItems(st, items) ==
    IF items = <<>> THEN st
    ELSE TextItems(IF Head(items).type = "text"
                   THEN Emit(st, Ev0(JsonDumps(Head(items).text)))
                   ELSE st,
                   Tail(items))

\* streamer.py:83-88 and 117-122
ContentEvents(st, content) ==
    IF content.isList THEN TextItems(st, content.items)
    ELSE Emit(st, Ev0(JsonDumps(content.text)))

\* streamer.py:89-92
RECURSIVE FullToolCalls(_, _)
FullToolCalls(st, calls) ==
    IF calls = <<>> THEN st
    ELSE LET tool_call == Head(calls)
             s1 == [st EXCEPT !.pending = @ \cup {tool_call.id}]
         IN  FullToolCalls(Emit(s1, Ev9(tool_call.id, tool_call.name,
                                        JsonDumps(tool_call.args))),
                           Tail(calls))

\* A mutant of ToolResult: the drafts are kept when the pending set empties.
ToolResultNoReset(st, chunk) ==
    LET s2 == Emit([st EXCEPT !.pending = @ \ {chunk.tool_call_id}],
                   EvA(chunk.tool_call_id, JsonDumps(chunk.content)))
    IN  IF Cardinality(s2.pending) = 0 THEN Emit(s2, EvToolCallsFinish) ELSE s2

\* A mutant of ToolResult: the tool-calls finish is decided before the id is removed.
ToolResultStale(st, chunk) ==
    LET s2 == Emit([st EXCEPT !.pending = @ \ {chunk.tool_call_id}],
                   EvA(chunk.tool_call_id, JsonDumps(chunk.content)))
    IN  IF st.pending = {}
        THEN Emit([s2 EXCEPT !.draft = <<>>], EvToolCallsFinish)
        ELSE s2

\* streamer.py:95-112
ToolResult(st, chunk) ==
    LET s1 == [st EXCEPT !.pending = @ \ {chunk.tool_call_id}]
        s2 == Emit(s1, EvA(chunk.tool_call_id, JsonDumps(chunk.content)))
    IN  IF Cardinality(s2.pending) = 0
        THEN Emit([s2 EXCEPT !.draft = <<>>], EvToolCallsFinish)
        ELSE s2

\* streamer.py:31-36
StopMarker(st, chunk) ==
    IF chunk.kind = "dict" /\ chunk.stop THEN Emit(st, EvToolCallsFinish) ELSE st

\* streamer.py:29-122, one iteration of the loop
StreamStep(st, chunk) ==
    LET s0 == StopMarker(st, chunk)
    IN  IF chunk.tool_call_chunks # <<>>
        THEN ToolCallChunks(s0, chunk.tool_call_chunks)
        ELSE IF chunk.tool_calls # <<>>
        THEN FullToolCalls(IF chunk.kind = "ai" \/ chunk.kind = "tool"
                           THEN ContentEvents(s0, chunk.content) ELSE s0,
                           chunk.tool_calls)
        ELSE IF chunk.tool_call_id # None
        THEN ToolResult(s0, chunk)
        ELSE IF chunk.kind # "dict" /\ chunk.kind # "str" /\ Truthy(chunk.content)
        THEN ContentEvents(s0, chunk.content)
        ELSE s0

\* A mutant of ExceptClause: the handler swallows the exception without a 3: line.
ExceptClauseSilent(w, msg) == w

\* streamer.py:123-124
ExceptClause(w, msg) == Append(w, Ev3(JsonDumps(msg)))

\* A mutant of FinallyClause: the final finish is only sent after a tool-calls finish.
FinallyClauseConditional(w) ==
    IF w # <<>> /\ w[Len(w)] = EvToolCallsFinish THEN Append(w, EvFinalFinish) ELSE w

\* streamer.py:125-132
FinallyClause(w) == Append(w, EvFinalFinish)

(***************************************************************************)
(* The steps of stream_vercel_format.                                      *)
(***************************************************************************)
StreamState == [wire |-> wire, draft |-> draft_tool_calls, pending |-> pending_tool_calls]

\* streamer.py:29, the loop body run on the chunks cs one after the other
RECURSIVE StreamSteps(_, _)
StreamSteps(st, cs) ==
    IF cs = <<>> THEN st ELSE StreamSteps(StreamStep(st, Head(cs)), Tail(cs))

\* The source delivers the chunks cs and the loop body runs on each.
ConsumeAll(cs) ==
    /\ spc = "iter"
    /\ LET st == StreamSteps(StreamState, cs)
       IN  /\ wire' = st.wire
           /\ draft_tool_calls' = st.draft
           /\ pending_tool_calls' = st.pending
    /\ log' = log \o cs
    /\ UNCHANGED <<spc, exc>>

\* The source delivers chunk c and the loop body runs on it.
Consume(c) == ConsumeAll(<<c>>)

\* Iterating the source raises: except clause, then finally.
SourceRaises(msg) ==
    /\ spc = "iter"
    /\ wire' = FinallyClause(ExceptClause(wire, msg))
    /\ spc' = "done"
    /\ exc' = msg
    /\ UNCHANGED <<draft_tool_calls, pending_tool_calls, log>>

\* The source is exhausted: finally.
SourceEnds ==
    /\ spc = "iter"
    /\ wire' = FinallyClause(wire)
    /\ spc' = "done"
    /\ UNCHANGED <<draft_tool_calls, pending_tool_calls, log, exc>>

StreamInit ==
    /\ wire = <<>>
    /\ draft_tool_calls = <<>>
    /\ pending_tool_calls = {}
    /\ spc = "iter"
    /\ log = <<>>
    /\ exc = None

\* gathered: None (falsy) or the sum of the chunks received.
NoneGathered == [some |-> FALSE, chunks |-> <<>>]

BaseIdle ==
    /\ bpc = "idle"
    /\ resp = <<>>
    /\ gathered = NoneGathered
    /\ base_messages = <<>>
    /\ tool_calls = <<>>
    /\ scripts = <<>>

CuaIdle ==
    /\ cpc = "idle"
    /\ steps = 0
    /\ new_items = <<>>
    /\ conversation_items = <<>>
    /\ callFailed = None

EnvInit ==
    /\ cancel = FALSE
    /\ streams = 0
    /\ invocations = 0

TrimIdle ==
    /\ self_items = <<>>
    /\ num_images_to_keep = 0
    /\ mpc = "idle"
    /\ self_items0 = <<>>

MsgTrimIdle ==
    /\ messages = <<>>
    /\ keep_arg = 0
    /\ trimmed_messages = <<>>
    /\ fpc = "idle"

NoOutcome == [type |-> None, error |-> None, data |-> None, current_url |-> None]
NoAction == [type |-> None, arg |-> None]

ComputerIdle ==
    /\ page_closed = FALSE
    /\ page_url = "u0"
    /\ xpc = "idle"
    /\ action = NoAction
    /\ outcome = NoOutcome
    /\ performed = FALSE
    /\ thrown = None
    /\ closed_at_call = FALSE
    /\ shots = 0

NoData == [kind |-> None, n |-> 0]

\* The session ids: the loop that is modelled step by step runs for "B".
Sessions == {"A", "B"}

NoRequest == [cmd |-> None, session_id |-> None]

BrowserIdle ==
    /\ controller_session_id = None
    /\ active_browsers = [s \in Sessions |-> "absent"]
    /\ agent_tasks = [s \in Sessions |-> 0]
    /\ request = NoRequest
    /\ pause_result = None
    /\ agent_resumed = FALSE
    /\ agent_paused = FALSE
    /\ controller_agent = None
    /\ queue = <<>>
    /\ pending_special_messages = <<>>
    /\ has_pending_messages = FALSE
    /\ lpc = "idle"
    /\ data = NoData
    /\ release_left = <<>>
    /\ yielded = <<>>
    /\ deferred_log = {}
    /\ serial = 0
    /\ callbacks = 0
    /\ pauses = 0
    /\ resumes = 0
    /\ sleeping = 0
    /\ starts = 0

\* The two resume_session calls.
Calls == {1, 2}

ResumeIdle ==
    /\ clock = 0
    /\ session_last_resume = <<>>
    /\ session_locks = 0
    /\ rpc = [c \in Calls |-> "idle"]
    /\ call_now = [c \in Calls |-> 0]
    /\ since = [c \in Calls |-> 0]
    /\ status = [c \in Calls |-> None]
    /\ wait_for_suspends = FALSE
    /\ attempts = [c \in Calls |-> 0]
    /\ last_error = [c \in Calls |-> FALSE]

NoRelease == [session_id |-> None, was_released |-> FALSE, client |-> None]

ReleaseIdle ==
    /\ steel_sessions = [s \in Sessions |-> "live"]
    /\ releases = 0
    /\ release_call = NoRelease
    /\ release_response = None

\* The components outside the chat stream are not in use.
LibIdle ==
    TrimIdle /\ MsgTrimIdle /\ ComputerIdle /\ BrowserIdle /\ ResumeIdle /\ ReleaseIdle

(***************************************************************************)
(* SpecStream: stream_vercel_format over every bounded chunk sequence.     *)
(***************************************************************************)
EmptyArgs == "{}"

StartChunks ==
    { AIChunk(StrContent(""), <<TC(p[1], p[2], "f", a)>>, <<>>) :
        p \in {<<"0", "t1">>, <<"0", "t2">>, <<"1", "t2">>}, a \in {<<>>, <<"{">>} }

ContinuationChunks ==
    { AIChunk(StrContent(""), <<TC(i, None, None, a)>>, <<>>) :
        i \in Indexes, a \in {<<"}">>, <<" ">>} }

PairChunk ==
    AIChunk(StrContent(""),
            <<TC(None, None, None, <<"{">>), TC("0", "t1", "f", <<"{">>),
              TC("1", "t2", "g", <<"{", "}">>)>>,
            <<>>)

FullCallChunks ==
    { AIChunk(StrContent(""), <<>>, <<Call("t1", "f", EmptyArgs)>>),
      AIChunk(ListContent(<<TextItem("b"), OtherItem>>), <<>>,
              <<Call("t1", "f", EmptyArgs), Call("t2", "g", EmptyArgs)>>) }

ResultChunks == { ToolMessage(id, StrContent("r")) : id \in Ids }

TextChunks == { AIChunk(StrContent("a"), <<>>, <<>>) }

Chunks ==
    StartChunks \cup ContinuationChunks \cup {PairChunk} \cup FullCallChunks
        \cup ResultChunks \cup TextChunks \cup {StopDict, Str("s")}

Messages == {"boom"}

vars == <<streamVars, baseVars, envVars, cuaVars, libVars>>

SChunk ==
    /\ \E c \in Chunks : Len(log) < MaxChunks /\ Consume(c)
    /\ UNCHANGED notStream

SRaise ==
    /\ \E msg \in Messages : SourceRaises(msg)
    /\ UNCHANGED notStream

SEnd ==
    /\ SourceEnds
    /\ UNCHANGED notStream

StreamNext == SChunk \/ SRaise \/ SEnd

StreamSpecInit == StreamInit /\ BaseIdle /\ CuaIdle /\ EnvInit /\ LibIdle

SpecStream == StreamSpecInit /\ [][StreamNext]_vars

(***************************************************************************)
(* base_agent.                                                             *)
(***************************************************************************)
\* base/agent.py:44-48, gathered = chunk, or gathered = gathered + chunk
AddChunk(g, chunk) == [some |-> TRUE, chunks |-> Append(g.chunks, chunk)]

RECURSIVE Flatten(_)
Flatten(chunks) ==
    IF chunks = <<>> THEN <<>> ELSE Head(chunks).tool_call_chunks \o Flatten(Tail(chunks))

\* The indexes of the entries, each once, in the order they first occur.
RECURSIVE IndexOrder(_, _)
IndexOrder(entries, seen) ==
    IF entries = <<>> THEN <<>>
    ELSE IF Head(entries).index \in seen THEN IndexOrder(Tail(entries), seen)
    ELSE <<Head(entries).index>> \o IndexOrder(Tail(entries), seen \cup {Head(entries).index})

RECURSIVE FirstSet(_, _, _)
FirstSet(entries, i, field) ==
    IF entries = <<>> THEN None
    ELSE IF Head(entries).index = i /\ Head(entries)[field] # None THEN Head(entries)[field]
    ELSE FirstSet(Tail(entries), i, field)

RECURSIVE ArgsAt(_, _)
ArgsAt(entries, i) ==
    IF entries = <<>> THEN <<>>
    ELSE (IF Head(entries).index = i THEN Head(entries).args ELSE <<>>) \o ArgsAt(Tail(entries), i)

\* The tool-call chunks of the sum of the chunks are merged by index.
MergedAt(entries, i) ==
    Call(FirstSet(entries, i, "id"), FirstSet(entries, i, "name"), ArgsAt(entries, i))

\* The partial-JSON parse of the merged arguments gives an object.
ParsesToObject(args) == args = <<>> \/ LStrip(args)[1] = "{"

IsValidCall(call) == ParsesToObject(call.args)

\* base/agent.py:63-64, gathered.tool_calls
GatheredToolCalls(g) ==
    LET entries == Flatten(g.chunks)
        order == IndexOrder(entries, {})
    IN  SelectSeq([k \in 1..Len(order) |-> MergedAt(entries, order[k])], IsValidCall)

\* base/agent.py:68
ToolMsgFor(tool, result) == ToolMessage(tool.id, StrContent(result))

\* The checks of the cancellation signal: base/agent.py:32, 41, 58 and 65.
CancelAtTop == cancel
CancelAtChunk == cancel
CancelAfterStream == cancel

\* A mutant of CancelAtTool: the check between two tool calls is missing.
CancelAtToolMissing == FALSE

CancelAtTool == cancel

\* The responses the model may stream on its n-th call.
CallId(n, k) == "t" \o ToString(2 * n + k - 2)

Fragment(i, a) == AIChunk(StrContent(""), <<TC(i, None, None, a)>>, <<>>)
Start(i, id, name, a) == AIChunk(StrContent(""), <<TC(i, id, name, a)>>, <<>>)
Text(t) == AIChunk(StrContent(t), <<>>, <<>>)

Scripts(n) ==
    { <<>>,
      <<Text("a")>>,
      <<Text("a"), Text("b")>>,
      <<Start("0", CallId(n, 1), "f", <<"{">>), Fragment("0", <<"}">>)>>,
      <<Start("0", CallId(n, 1), "f", <<>>)>>,
      <<Start("0", CallId(n, 1), "f", <<"{", "}">>),
        Start("1", CallId(n, 2), "g", <<"{">>), Fragment("1", <<" ">>), Fragment("1", <<"}">>)>>,
      <<Start("0", CallId(n, 1), "f", <<"{", "}">>), Fragment("0", <<" ">>)>> }

\* base/agent.py:31-39
BTop ==
    /\ bpc = "top"
    /\ IF CancelAtTop
       THEN /\ bpc' = "end"
            /\ UNCHANGED <<resp, gathered, scripts, streams>>
       ELSE /\ streams < MaxModelCalls
            /\ \E sc \in Scripts(streams + 1) :
                 /\ resp' = sc
                 /\ scripts' = Append(scripts, sc)
            /\ gathered' = NoneGathered
            /\ streams' = streams + 1
            /\ bpc' = "stream"
    /\ UNCHANGED <<streamVars, base_messages, tool_calls, cancel, invocations>>
    /\ UNCHANGED notBase

\* base/agent.py:39-50, the stream delivers a chunk
BChunk ==
    /\ bpc = "stream"
    /\ resp # <<>>
    /\ IF CancelAtChunk
       THEN \* break, then lines 52-60
            /\ base_messages' = IF gathered.some
                                THEN Append(base_messages, [type |-> "ai", chunks |-> gathered.chunks])
                                ELSE base_messages
            /\ bpc' = "end"
            /\ resp' = <<>>
            /\ UNCHANGED <<streamVars, gathered>>
       ELSE /\ gathered' = AddChunk(gathered, Head(resp))
            /\ Consume(Head(resp))
            /\ resp' = Tail(resp)
            /\ UNCHANGED <<bpc, base_messages>>
    /\ UNCHANGED <<tool_calls, scripts, envVars>>
    /\ UNCHANGED notBase

\* base/agent.py:52-67 and 71-72, the stream is exhausted
BStreamDone ==
    /\ bpc = "stream"
    /\ resp = <<>>
    /\ IF ~gathered.some
       THEN /\ bpc' = "end"
            /\ UNCHANGED <<base_messages, tool_calls, invocations>>
       ELSE /\ base_messages' = Append(base_messages, [type |-> "ai", chunks |-> gathered.chunks])
            /\ IF CancelAfterStream \/ GatheredToolCalls(gathered) = <<>>
               THEN /\ bpc' = "end"
                    /\ UNCHANGED <<tool_calls, invocations>>
               ELSE IF CancelAtTool
               THEN /\ bpc' = "top"
                    /\ UNCHANGED <<tool_calls, invocations>>
               ELSE /\ tool_calls' = GatheredToolCalls(gathered)
                    /\ invocations' = invocations + 1
                    /\ bpc' = "invoke"
    /\ UNCHANGED <<streamVars, resp, gathered, scripts, cancel, streams>>
    /\ UNCHANGED notBase

\* base/agent.py:67-69, ainvoke returns and the ToolMessage is yielded
BToolReturns ==
    /\ bpc = "invoke"
    /\ Consume(ToolMsgFor(Head(tool_calls), "r"))
    /\ bpc' = "yielded"
    /\ UNCHANGED <<resp, gathered, base_messages, tool_calls, scripts, envVars>>
    /\ UNCHANGED notBase

\* base/agent.py:67, ainvoke raises
BToolRaises ==
    /\ bpc = "invoke"
    /\ \E msg \in Messages : SourceRaises(msg)
    /\ bpc' = "closed"
    /\ UNCHANGED <<resp, gathered, base_messages, tool_calls, scripts, envVars>>
    /\ UNCHANGED notBase

\* base/agent.py:70 and 64-67, after the yield: append, then the next tool call
BAfterYield ==
    /\ bpc = "yielded"
    /\ base_messages' = Append(base_messages,
                               [type |-> "tool", tool_call_id |-> Head(tool_calls).id])
    /\ tool_calls' = Tail(tool_calls)
    /\ IF Tail(tool_calls) # <<>> /\ ~CancelAtTool
       THEN /\ invocations' = invocations + 1
            /\ bpc' = "invoke"
       ELSE /\ bpc' = "top"
            /\ UNCHANGED invocations
    /\ UNCHANGED <<streamVars, resp, gathered, scripts, cancel, streams>>
    /\ UNCHANGED notBase

\* The generator returns and stream_vercel_format leaves its loop.
BEnd ==
    /\ bpc = "end"
    /\ SourceEnds
    /\ bpc' = "closed"
    /\ UNCHANGED <<resp, gathered, base_messages, tool_calls, scripts, envVars>>
    /\ UNCHANGED notBase

\* index.py:240-242, the cancellation signal is set
BCancel ==
    /\ ~cancel
    /\ bpc \notin {"idle", "closed"}
    /\ cancel' = TRUE
    /\ UNCHANGED <<streamVars, baseVars, streams, invocations>>
    /\ UNCHANGED notBase

BaseInit ==
    /\ bpc = "top"
    /\ resp = <<>>
    /\ gathered = NoneGathered
    /\ base_messages = <<[type |-> "human"]>>
    /\ tool_calls = <<>>
    /\ scripts = <<>>

BaseNext ==
    BTop \/ BChunk \/ BStreamDone \/ BToolReturns \/ BToolRaises \/ BAfterYield \/ BEnd \/ BCancel

BaseSpecInit == StreamInit /\ BaseInit /\ CuaIdle /\ EnvInit /\ LibIdle

SpecBase == BaseSpecInit /\ [][BaseNext]_vars

(***************************************************************************)
(* claude_steel_agent. Its locals have the names and the roles of the      *)
(* locals of base_agent, so it runs on the same variables: bpc is its      *)
(* position, tool_calls its tools_called.                                  *)
(***************************************************************************)
\* claude_steel_use/agent.py:335-336
ClaudeToolMsgFor(tool, result) == ToolMessage(tool.id, ListContent(<<TextItem(result)>>))

\* claude_steel_use/agent.py:320-334 and 340-341, what follows the async for,
\* whether it was exhausted or left by the break of line 313
KAfterStream ==
    IF ~gathered.some
    THEN /\ bpc' = "end"
         /\ UNCHANGED <<base_messages, tool_calls, invocations>>
    ELSE /\ base_messages' = Append(base_messages, [type |-> "ai", chunks |-> gathered.chunks])
         /\ IF GatheredToolCalls(gathered) = <<>>
            THEN /\ bpc' = "end"
                 /\ UNCHANGED <<tool_calls, invocations>>
            ELSE /\ tool_calls' = GatheredToolCalls(gathered)
                 /\ invocations' = invocations + 1
                 /\ bpc' = "invoke"

\* claude_steel_use/agent.py:301-311
KTop ==
    /\ bpc = "top"
    /\ IF cancel
       THEN /\ bpc' = "end"
            /\ UNCHANGED <<resp, gathered, scripts, streams>>
       ELSE /\ streams < MaxModelCalls
            /\ \E sc \in Scripts(streams + 1) :
                 /\ resp' = sc
                 /\ scripts' = Append(scripts, sc)
            /\ gathered' = NoneGathered
            /\ streams' = streams + 1
            /\ bpc' = "stream"
    /\ UNCHANGED <<streamVars, base_messages, tool_calls, cancel, invocations>>
    /\ UNCHANGED notBase

\* claude_steel_use/agent.py:311-319, the stream delivers a chunk
KChunk ==
    /\ bpc = "stream"
    /\ resp # <<>>
    /\ IF cancel
       THEN /\ KAfterStream
            /\ resp' = <<>>
            /\ UNCHANGED <<streamVars, gathered>>
       ELSE /\ gathered' = AddChunk(gathered, Head(resp))
            /\ Consume(Head(resp))
            /\ resp' = Tail(resp)
            /\ UNCHANGED <<bpc, base_messages, tool_calls, invocations>>
    /\ UNCHANGED <<scripts, cancel, streams>>
    /\ UNCHANGED notBase

\* claude_steel_use/agent.py:311 and 320-334, the stream is exhausted
KStreamDone ==
    /\ bpc = "stream"
    /\ resp = <<>>
    /\ KAfterStream
    /\ UNCHANGED <<streamVars, resp, gathered, scripts, cancel, streams>>
    /\ UNCHANGED notBase

\* claude_steel_use/agent.py:332-338, ainvoke returns and the ToolMessage is yielded
KToolReturns ==
    /\ bpc = "invoke"
    /\ Consume(ClaudeToolMsgFor(Head(tool_calls), "r"))
    /\ bpc' = "yielded"
    /\ UNCHANGED <<resp, gathered, base_messages, tool_calls, scripts, envVars>>
    /\ UNCHANGED notBase

\* claude_steel_use/agent.py:332 and 342-344, ainvoke raises and the agent re-raises
KToolRaises ==
    /\ bpc = "invoke"
    /\ \E msg \in Messages : SourceRaises(msg)
    /\ bpc' = "closed"
    /\ UNCHANGED <<resp, gathered, base_messages, tool_calls, scripts, envVars>>
    /\ UNCHANGED notBase

\* claude_steel_use/agent.py:339 and 331-334, after the yield: append, then the next tool
KAfterYield ==
    /\ bpc = "yielded"
    /\ base_messages' = Append(base_messages,
                               [type |-> "tool", tool_call_id |-> Head(tool_calls).id])
    /\ tool_calls' = Tail(tool_calls)
    /\ IF Tail(tool_calls) # <<>>
       THEN /\ invocations' = invocations + 1
            /\ bpc' = "invoke"
       ELSE /\ bpc' = "top"
            /\ UNCHANGED invocations
    /\ UNCHANGED <<streamVars, resp, gathered, scripts, cancel, streams>>
    /\ UNCHANGED notBase

\* The generator returns and stream_vercel_format leaves its loop.
KEnd ==
    /\ bpc = "end"
    /\ SourceEnds
    /\ bpc' = "closed"
    /\ UNCHANGED <<resp, gathered, base_messages, tool_calls, scripts, envVars>>
    /\ UNCHANGED notBase

\* index.py:240-242, the cancellation signal is set while the generator is suspended
KCancel ==
    /\ ~cancel
    /\ bpc \notin {"idle", "closed"}
    /\ cancel' = TRUE
    /\ UNCHANGED <<streamVars, baseVars, streams, invocations>>
    /\ UNCHANGED notBase

ClaudeNext ==
    KTop \/ KChunk \/ KStreamDone \/ KToolReturns \/ KToolRaises \/ KAfterYield \/ KEnd \/ KCancel

ClaudeSpecInit == StreamInit /\ BaseInit /\ CuaIdle /\ EnvInit /\ LibIdle

SpecClaude == ClaudeSpecInit /\ [][ClaudeNext]_vars

(***************************************************************************)
(* openai_computer_use_agent.                                              *)
(***************************************************************************)
MAX_STEPS == 30

\* An entry of conversation_items.
Item(type, call_id, output) == [type |-> type, call_id |-> call_id, output |-> output]

\* The chat histories of the request: a user message, or an earlier turn with a
\* tool invocation followed by a new user message (utils/prompt.py:41-67).
Histories ==
    { <<"human">>, <<"human", "ai_tool_calls", "tool", "human">> }

\* agent.py:273-321
RECURSIVE HistoryItems(_)
HistoryItems(h) ==
    IF h = <<>> THEN <<>>
    ELSE <<(IF Head(h) = "tool" THEN Item("computer_call_output", "h1", "input_image")
            ELSE IF Head(h) = "ai_tool_calls" THEN Item("assistant", None, None)
            ELSE Item("user", None, None))>> \o HistoryItems(Tail(h))

\* An output item of the model: message, computer_call, reasoning, function_call, assistant.
Out(type, call_id, name, text) == [type |-> type, call_id |-> call_id, name |-> name, text |-> text]

CuaId(n, k) == "c" \o ToString(2 * n + k - 2)

\* The output the model may return on its n-th call.
Outputs(n) ==
    { <<>>,
      <<Out("message", None, None, "m")>>,
      <<Out("computer_call", CuaId(n, 1), "click", "")>>,
      <<Out("computer_call", CuaId(n, 1), "click", ""),
        Out("computer_call", CuaId(n, 2), "type", "")>>,
      <<Out("reasoning", None, None, ""), Out("function_call", CuaId(n, 1), "goto", "")>>,
      <<Out("function_call", CuaId(n, 1), "other", "")>>,
      <<Out("assistant", None, None, "done")>> }

\* agent.py:412, the items are appended to the conversation as they are
AsItem(out) == Item(out.type, out.call_id, None)

RECURSIVE AsItems(_)
AsItems(outs) == IF outs = <<>> THEN <<>> ELSE <<AsItem(Head(outs))>> \o AsItems(Tail(outs))

\* The notices the agent yields as plain strings.
Notice(t) == Str(t)

\* agent.py:638-639
AgentEnded == Notice("[OPENAI-CUA] Agent ended (max steps reached or canceled).")

\* agent.py:443-452
ComputerCallMsg(out) ==
    AIChunk(StrContent(""), <<>>, <<Call(out.call_id, out.name, EmptyArgs)>>)

\* agent.py:161-182, _create_tool_message(is_call=True): the entry of tool_calls
\* has the keys id, type and function, and neither name nor args.
FunctionCallMsg(out) ==
    [kind |-> "tool", stop |-> FALSE, content |-> StrContent(""), tool_call_chunks |-> <<>>,
     tool_calls |-> <<Call(out.call_id, None, None)>>, tool_call_id |-> None]

\* agent.py:484-497, 555-565 and 584-593
ResultMsg(out, type) == ToolMessage(out.call_id, ListContent(<<[type |-> type, text |-> ""]>>))

\* agent.py:206-322
CSetup ==
    /\ cpc = "setup"
    /\ \E o \in {"ok", "no_session", "no_cdp", "no_contexts"} :
         CASE o = "no_session" ->
                /\ SourceRaises("Failed to retrieve session")
                /\ cpc' = "closed"
                /\ UNCHANGED conversation_items
           [] o = "no_cdp" ->
                /\ ConsumeAll(<<Notice("[OPENAI-CUA] Session loaded."),
                                Notice("Error: could not connect to browser session (CDP)")>>)
                /\ cpc' = "end"
                /\ UNCHANGED conversation_items
           [] o = "no_contexts" ->
                /\ ConsumeAll(<<Notice("[OPENAI-CUA] Session loaded."),
                                Notice("[OPENAI-CUA] Playwright connected!"),
                                Notice("Error: No contexts found in the remote browser")>>)
                /\ cpc' = "end"
                /\ UNCHANGED conversation_items
           [] o = "ok" ->
                /\ ConsumeAll(<<Notice("[OPENAI-CUA] Session loaded."),
                                Notice("[OPENAI-CUA] Playwright connected!"),
                                Notice("[OPENAI-CUA] Loaded Hacker News as a starting page.")>>)
                /\ cpc' = "top"
                /\ \E h \in Histories :
                     conversation_items' = <<Item("system", None, None)>> \o HistoryItems(h)
    /\ UNCHANGED <<steps, new_items, callFailed, envVars>>
    /\ UNCHANGED notCua

\* agent.py:326-334 without the test of the step counter
CLeaveOnCancelOnly ==
    /\ cpc = "top"
    /\ cancel
    /\ ConsumeAll(<<Notice("[OPENAI-CUA] Cancel event detected, stopping..."), AgentEnded>>)
    /\ cpc' = "end"
    /\ UNCHANGED <<steps, new_items, conversation_items, callFailed, envVars>>
    /\ UNCHANGED notCua

\* agent.py:326-334, the loop is left at its top
CLeave ==
    /\ cpc = "top"
    /\ cancel \/ steps > MAX_STEPS
    /\ IF cancel
       THEN ConsumeAll(<<Notice("[OPENAI-CUA] Cancel event detected, stopping..."), AgentEnded>>)
       ELSE ConsumeAll(<<Notice("[OPENAI-CUA] Reached max steps, stopping..."), AgentEnded>>)
    /\ cpc' = "end"
    /\ UNCHANGED <<steps, new_items, conversation_items, callFailed, envVars>>
    /\ UNCHANGED notCua

\* agent.py:336-351, the api key or the model name is not valid
CConfigError ==
    /\ cpc = "top"
    /\ ~cancel /\ ~(steps > MAX_STEPS)
    /\ steps = 0
    /\ steps' = steps + 1
    /\ \E msg \in {"No OPENAI_API_KEY configured", "Invalid model name"} : SourceRaises(msg)
    /\ cpc' = "closed"
    /\ UNCHANGED <<new_items, conversation_items, callFailed, envVars>>
    /\ UNCHANGED notCua

\* agent.py:336-401, the request raises or the status is not OK
CCallFails ==
    /\ cpc = "top"
    /\ ~cancel /\ ~(steps > MAX_STEPS)
    /\ streams < MaxModelCalls
    /\ steps' = steps + 1
    /\ streams' = streams + 1
    /\ \E msg \in Messages :
         /\ callFailed' = msg
         /\ ConsumeAll(<<Notice("Error calling OpenAI CUA endpoint: " \o msg), AgentEnded>>)
    /\ cpc' = "end"
    /\ UNCHANGED <<new_items, conversation_items, cancel, invocations>>
    /\ UNCHANGED notCua

\* agent.py:336-407, the response has no output
CNoOutput ==
    /\ cpc = "top"
    /\ ~cancel /\ ~(steps > MAX_STEPS)
    /\ streams < MaxModelCalls
    /\ steps' = steps + 1
    /\ streams' = streams + 1
    /\ ConsumeAll(<<Notice("No 'output' in /v1/responses result"), AgentEnded>>)
    /\ cpc' = "end"
    /\ UNCHANGED <<new_items, conversation_items, callFailed, cancel, invocations>>
    /\ UNCHANGED notCua

\* agent.py:336-412, the response has output items
CCall ==
    /\ cpc = "top"
    /\ ~cancel /\ ~(steps > MAX_STEPS)
    /\ streams < MaxModelCalls
    /\ steps' = steps + 1
    /\ streams' = streams + 1
    /\ \E outs \in Outputs(streams + 1) :
         /\ new_items' = outs
         /\ conversation_items' = conversation_items \o AsItems(outs)
    /\ cpc' = "items"
    /\ UNCHANGED <<callFailed, cancel, invocations, streamVars>>
    /\ UNCHANGED notCua

\* agent.py:414 and 636, the items of the response are exhausted
CItemsDone ==
    /\ cpc = "items"
    /\ new_items = <<>>
    /\ cpc' = "top"
    /\ UNCHANGED <<steps, new_items, conversation_items, callFailed, envVars, streamVars>>
    /\ UNCHANGED notCua

\* agent.py:418-426
CMessage ==
    /\ cpc = "items"
    /\ new_items # <<>> /\ Head(new_items).type = "message"
    /\ IF Head(new_items).text # ""
       THEN Consume(Notice(Head(new_items).text))
       ELSE UNCHANGED streamVars
    /\ new_items' = Tail(new_items)
    /\ UNCHANGED <<cpc, steps, conversation_items, callFailed, envVars>>
    /\ UNCHANGED notCua

\* agent.py:501-504
CReasoning ==
    /\ cpc = "items"
    /\ new_items # <<>> /\ Head(new_items).type = "reasoning"
    /\ new_items' = Tail(new_items)
    /\ UNCHANGED <<cpc, steps, conversation_items, callFailed, envVars, streamVars>>
    /\ UNCHANGED notCua

\* agent.py:623-634
CAssistant ==
    /\ cpc = "items"
    /\ new_items # <<>> /\ Head(new_items).type = "assistant"
    /\ ConsumeAll(<<Notice("Assistant: " \o Head(new_items).text),
                    Notice("[OPENAI-CUA] Conversation complete.")>>)
    /\ cpc' = "end"
    /\ UNCHANGED <<steps, new_items, conversation_items, callFailed, envVars>>
    /\ UNCHANGED notCua

\* agent.py:428-452, the computer call is announced
CComputerCall ==
    /\ cpc = "items"
    /\ new_items # <<>> /\ Head(new_items).type = "computer_call"
    /\ Consume(ComputerCallMsg(Head(new_items)))
    /\ cpc' = "announced"
    /\ UNCHANGED <<steps, new_items, conversation_items, callFailed, envVars>>
    /\ UNCHANGED notCua

\* agent.py:506-525, the function call is announced, or building its message raises
CFunctionCall ==
    /\ cpc = "items"
    /\ new_items # <<>> /\ Head(new_items).type = "function_call"
    /\ \/ /\ Consume(FunctionCallMsg(Head(new_items)))
          /\ cpc' = "announced"
       \/ /\ SourceRaises("tool_call_id: field required")
          /\ cpc' = "closed"
    /\ UNCHANGED <<steps, new_items, conversation_items, callFailed, envVars>>
    /\ UNCHANGED notCua

\* agent.py:461 and 533, the action is started
CStartAction ==
    /\ cpc = "announced"
    /\ Head(new_items).type = "computer_call" \/ Head(new_items).name = "goto"
    /\ invocations' = invocations + 1
    /\ cpc' = "executing"
    /\ UNCHANGED <<steps, new_items, conversation_items, callFailed, cancel, streams, streamVars>>
    /\ UNCHANGED notCua

\* agent.py:597-621, the function is not goto
CUnknownFunction ==
    /\ cpc = "announced"
    /\ Head(new_items).type = "function_call" /\ Head(new_items).name # "goto"
    /\ conversation_items' =
          Append(conversation_items, Item("computer_call_output", Head(new_items).call_id, "error"))
    /\ Consume(ResultMsg(Head(new_items), "error"))
    /\ new_items' = Tail(new_items)
    /\ cpc' = "items"
    /\ UNCHANGED <<steps, callFailed, envVars>>
    /\ UNCHANGED notCua

\* agent.py:461-499 and 533-567, the action returns
CActionReturns ==
    /\ cpc = "executing"
    /\ conversation_items' =
          Append(conversation_items,
                 Item("computer_call_output", Head(new_items).call_id, "input_image"))
    /\ Consume(ResultMsg(Head(new_items), "image"))
    /\ new_items' = Tail(new_items)
    /\ cpc' = "items"
    /\ UNCHANGED <<steps, callFailed, envVars>>
    /\ UNCHANGED notCua

\* agent.py:461 with 157-159, and 533 with 569-595, the action raises
CActionRaises ==
    /\ cpc = "executing"
    /\ IF Head(new_items).type = "computer_call"
       THEN /\ \E msg \in Messages : SourceRaises(msg)
            /\ cpc' = "closed"
            /\ UNCHANGED <<new_items, conversation_items>>
       ELSE /\ conversation_items' =
                  Append(conversation_items,
                         Item("computer_call_output", Head(new_items).call_id, "error"))
            /\ Consume(ResultMsg(Head(new_items), "error"))
            /\ new_items' = Tail(new_items)
            /\ cpc' = "items"
    /\ UNCHANGED <<steps, callFailed, envVars>>
    /\ UNCHANGED notCua

\* The generator returns and stream_vercel_format leaves its loop.
CEnd ==
    /\ cpc = "end"
    /\ SourceEnds
    /\ cpc' = "closed"
    /\ UNCHANGED <<steps, new_items, conversation_items, callFailed, envVars>>
    /\ UNCHANGED notCua

\* index.py:240-242, the cancellation signal is set. The request to the model
\* is synchronous (agent.py:376), so the signal is set only where the generator
\* is suspended: at a yield or at the await of an action.
CCancel ==
    /\ ~cancel
    /\ cpc \in {"setup", "top", "announced", "executing", "end"}
    /\ cancel' = TRUE
    /\ UNCHANGED <<streamVars, cuaVars, streams, invocations>>
    /\ UNCHANGED notCua

CuaInit ==
    /\ cpc = "setup"
    /\ steps = 0
    /\ new_items = <<>>
    /\ conversation_items = <<>>
    /\ callFailed = None

CuaNext ==
    \/ CSetup \/ CLeave \/ CConfigError \/ CCallFails \/ CNoOutput \/ CCall
    \/ CItemsDone \/ CMessage \/ CReasoning \/ CAssistant \/ CComputerCall \/ CFunctionCall
    \/ CStartAction \/ CUnknownFunction \/ CActionReturns \/ CActionRaises \/ CEnd \/ CCancel

CuaSpecInit == StreamInit /\ BaseIdle /\ CuaInit /\ EnvInit /\ LibIdle

SpecCUA == CuaSpecInit /\ [][CuaNext]_vars

(***************************************************************************)
(* openai_computer_use_agent followed up to the ceiling of its step        *)
(* counter.  A round whose response has an empty output list changes the   *)
(* step counter only; such rounds are not counted in streams, whose bound  *)
(* caps the rounds that carry items.                                        *)
(***************************************************************************)
\* agent.py:336-414 and 636, the output list of the response is empty
CQuietCall ==
    /\ cpc = "top"
    /\ ~cancel /\ ~(steps > MAX_STEPS)
    /\ steps' = steps + 1
    /\ UNCHANGED <<cpc, new_items, conversation_items, callFailed, envVars, streamVars>>
    /\ UNCHANGED notCua

\* The steps of the agent and of the streamer, without the caller's cancel.
CuaAgentNext ==
    \/ CSetup \/ CLeave \/ CConfigError \/ CCallFails \/ CNoOutput \/ CCall \/ CQuietCall
    \/ CItemsDone \/ CMessage \/ CReasoning \/ CAssistant \/ CComputerCall \/ CFunctionCall
    \/ CStartAction \/ CUnknownFunction \/ CActionReturns \/ CActionRaises \/ CEnd

StepsNext == CuaAgentNext \/ CCancel

StepsSpecInit == StreamInit /\ BaseIdle /\ CuaInit /\ EnvInit /\ LibIdle

\* The generator is run to its end: a step of the agent that can be taken is
\* taken, an action in flight returns or raises.
SpecSteps == StepsSpecInit /\ [][StepsNext]_vars /\ WF_vars(CuaAgentNext)

(***************************************************************************)
(* ConversationManager (openai_computer_use/conversation_manager.py).      *)
(***************************************************************************)
MaxItems == 4
MaxKeep == 2

MINIMAL_BASE64_IMAGE == "data:image/png;base64,minimal"

\* An item of ConversationManager.items; only computer_call_output items have an output.
\* acknowledged_safety_checks is None when the item has no such key.
MItem(type, call_id, output_type, image_url) ==
    [type |-> type, call_id |-> call_id, output_type |-> output_type, image_url |-> image_url,
     acknowledged_safety_checks |-> None]

\* message_handler.py:210-219, the output item of an executed action
ActionOutput(call_id, image_url, ack_checks) ==
    [MItem("computer_call_output", call_id, "input_image", image_url)
        EXCEPT !.acknowledged_safety_checks = ack_checks]

\* The items add_item may be given as the n-th item of the conversation.
NewItems(n) ==
    { MItem("user", None, None, None),
      MItem("computer_call", "c" \o ToString(n), None, None),
      MItem("computer_call_output", "c" \o ToString(n), "input_image", "img" \o ToString(n)),
      ActionOutput("c" \o ToString(n), "img" \o ToString(n), "[sc1]"),
      MItem("computer_call_output", "c" \o ToString(n), "error", None) }

\* conversation_manager.py:130-135, the indexes of the items that carry an image
ImageItems(its) ==
    SelectSeq([i \in 1..Len(its) |-> i],
              LAMBDA i : its[i].type = "computer_call_output" /\ its[i].output_type = "input_image")

\* Python's s[:-k] for k >= 0; s[:-0] is s[:0], the empty list.
SliceBeforeLast(s, k) ==
    IF k = 0 THEN <<>>
    ELSE IF Len(s) - k > 0 THEN SubSeq(s, 1, Len(s) - k) ELSE <<>>

\* conversation_manager.py:145-153
Trimmed(item) ==
    MItem("computer_call_output", item.call_id, item.output_type, MINIMAL_BASE64_IMAGE)

\* conversation_manager.py:124-157
TrimImages(its, keep) ==
    LET image_items == ImageItems(its)
        images_to_trim == SliceBeforeLast(image_items, keep)
        trim == {images_to_trim[j] : j \in DOMAIN images_to_trim}
    IN  IF Len(image_items) <= keep THEN its
        ELSE [i \in 1..Len(its) |-> IF i \in trim THEN Trimmed(its[i]) ELSE its[i]]

\* conversation_manager.py:120-122
MAddItem ==
    /\ mpc \in {"ready", "trimmed", "prepared"}
    /\ Len(self_items) < MaxItems
    /\ \E item \in NewItems(Len(self_items) + 1) : self_items' = Append(self_items, item)
    /\ mpc' = "ready"
    /\ UNCHANGED <<num_images_to_keep, self_items0>>
    /\ UNCHANGED notTrim

\* conversation_manager.py:124-157
MTrimImages ==
    /\ mpc = "ready"
    /\ self_items0' = self_items
    /\ self_items' = TrimImages(self_items, num_images_to_keep)
    /\ mpc' = "trimmed"
    /\ UNCHANGED num_images_to_keep
    /\ UNCHANGED notTrim

\* conversation_manager.py:159-165, the list returned is a copy of items
MPrepareForModel ==
    /\ mpc = "ready"
    /\ self_items0' = self_items
    /\ self_items' = TrimImages(self_items, num_images_to_keep)
    /\ mpc' = "prepared"
    /\ UNCHANGED num_images_to_keep
    /\ UNCHANGED notTrim

\* conversation_manager.py:25-28
TrimInit ==
    /\ self_items = <<>>
    /\ num_images_to_keep \in 0..MaxKeep
    /\ mpc = "ready"
    /\ self_items0 = <<>>

TrimNext == MAddItem \/ MTrimImages \/ MPrepareForModel

TrimSpecInit ==
    StreamInit /\ BaseIdle /\ CuaIdle /\ EnvInit /\ TrimInit /\ MsgTrimIdle /\ ComputerIdle
    /\ BrowserIdle /\ ResumeIdle /\ ReleaseIdle

SpecTrim == TrimSpecInit /\ [][TrimNext]_vars

(***************************************************************************)
(* trim_images_from_messages (claude_steel_use/agent.py).                  *)
(***************************************************************************)
MaxMsgs == 3

Image == [type |-> "image", text |-> ""]
PlainText == [type |-> "text", text |-> "t"]

\* claude_steel_use/agent.py:102-105
Placeholder == [type |-> "text", text |-> "[Previous image removed to conserve context window]"]

\* A message of the history: a ToolMessage with a list content, or another message.
Msg(kind, content) == [kind |-> kind, content |-> content]

MessageValues ==
    { Msg("human", <<PlainText>>),
      Msg("tool", <<PlainText>>),
      Msg("tool", <<Image>>),
      Msg("tool", <<PlainText, Image>>),
      Msg("tool", <<Image, Image>>) }

Histories3 ==
    UNION { [1..n -> MessageValues] : n \in 0..MaxMsgs }

\* claude_steel_use/agent.py:72-78
HasImage(msg) ==
    msg.kind = "tool" /\ \E c \in DOMAIN msg.content : msg.content[c].type = "image"

\* claude_steel_use/agent.py:93-109, the new content and the keep_count left
RECURSIVE TrimContent(_, _)
TrimContent(content, keep_count) ==
    IF content = <<>> THEN [content |-> <<>>, keep_count |-> keep_count]
    ELSE IF Head(content).type = "image"
    THEN IF keep_count > 0
         THEN LET r == TrimContent(Tail(content), keep_count - 1)
              IN  [r EXCEPT !.content = <<Head(content)>> \o @]
         ELSE LET r == TrimContent(Tail(content), keep_count)
              IN  [r EXCEPT !.content = <<Placeholder>> \o @]
    ELSE LET r == TrimContent(Tail(content), keep_count)
         IN  [r EXCEPT !.content = <<Head(content)>> \o @]

\* claude_steel_use/agent.py:88-117, the messages from the oldest to the newest
RECURSIVE TrimEach(_, _)
TrimEach(msgs, keep_count) ==
    IF msgs = <<>> THEN <<>>
    ELSE IF Head(msgs).kind # "tool"
    THEN <<Head(msgs)>> \o TrimEach(Tail(msgs), keep_count)
    ELSE LET r == TrimContent(Head(msgs).content, keep_count)
         IN  <<Msg("tool", r.content)>> \o TrimEach(Tail(msgs), r.keep_count)

\* claude_steel_use/agent.py:52-119
trim_images_from_messages(msgs, num) ==
    IF num = 0 \/ num < 0 THEN msgs
    ELSE IF Cardinality({m \in DOMAIN msgs : HasImage(msgs[m])}) <= num THEN msgs
    ELSE TrimEach(msgs, num)

\* claude_steel_use/agent.py:52-119, the function is called
FTrim ==
    /\ fpc = "ready"
    /\ trimmed_messages' = trim_images_from_messages(messages, keep_arg)
    /\ fpc' = "returned"
    /\ UNCHANGED <<messages, keep_arg>>
    /\ UNCHANGED notMsgTrim

MsgTrimInit ==
    /\ messages \in Histories3
    /\ keep_arg \in 0..MaxKeep
    /\ trimmed_messages = <<>>
    /\ fpc = "ready"

MsgTrimNext == FTrim

MsgTrimSpecInit ==
    StreamInit /\ BaseIdle /\ CuaIdle /\ EnvInit /\ TrimIdle /\ MsgTrimInit /\ ComputerIdle
    /\ BrowserIdle /\ ResumeIdle /\ ReleaseIdle

SpecMsgTrim == MsgTrimSpecInit /\ [][MsgTrimNext]_vars

(***************************************************************************)
(* SteelComputer.execute_action (openai_computer_use/steel_computer.py).   *)
(***************************************************************************)
MaxActions == 2
MaxCallbacks == 2
MaxPauses == 2
MaxResumes == 1
MaxStarts == 1
MaxTime == 12
MaxReleases == 5

Urls == {"u0", "u1"}

\* The actions the model may request; arg is the path of a drag or the url of a goto.
Actions ==
    { [type |-> "click", arg |-> None],
      [type |-> "drag", arg |-> None],
      [type |-> "drag", arg |-> "path"],
      [type |-> "goto", arg |-> None],
      [type |-> "goto", arg |-> "u1"],
      [type |-> "screenshot", arg |-> None],
      [type |-> "bogus", arg |-> None] }

\* steel_computer.py:207-210
ClosedOutcome ==
    [type |-> "error", error |-> "Page is closed; cannot execute action",
     data |-> None, current_url |-> None]

\* A mutant of ExceptOutcome: the handler lets the exception go to the caller.
ExceptOutcomeReraise(msg) ==
    [type |-> "raised", error |-> msg, data |-> None, current_url |-> None]

\* steel_computer.py:294-301
ExceptOutcome(msg) ==
    [type |-> "error", error |-> msg, data |-> None, current_url |-> None]

\* steel_computer.py:279-292
ImageOutcome(n, url) ==
    [type |-> "image", error |-> None, data |-> "shot" \o ToString(n), current_url |-> url]

\* steel_computer.py:250-251 and 267-268, the action lacks its argument
LacksArgument(a) == a.type \in {"drag", "goto"} /\ a.arg = None

ArgumentError(a) ==
    IF a.type = "drag" THEN "No path provided for drag action."
    ELSE "URL is required for goto action."

\* steel_computer.py:271-276, nothing is done before the screenshot
NoSteps(a) == a.type \in {"screenshot", "bogus"}

\* steel_computer.py:190-213, the call begins
XCall ==
    /\ xpc \in {"ready", "returned"}
    /\ shots < MaxActions
    /\ \E a \in Actions : action' = a
    /\ closed_at_call' = page_closed
    /\ performed' = FALSE
    /\ thrown' = None
    /\ IF page_closed
       THEN /\ outcome' = ClosedOutcome
            /\ xpc' = "returned"
       ELSE /\ outcome' = NoOutcome
            /\ xpc' = "action"
    /\ UNCHANGED <<page_closed, page_url, shots>>
    /\ UNCHANGED notComputer

\* steel_computer.py:215-276, the steps of the action are performed
XActionDone ==
    /\ xpc = "action"
    /\ ~LacksArgument(action)
    /\ NoSteps(action) \/ ~page_closed
    /\ performed' = ~NoSteps(action)
    /\ IF NoSteps(action) THEN UNCHANGED page_url ELSE page_url' \in Urls
    /\ xpc' = "screenshot"
    /\ UNCHANGED <<page_closed, action, outcome, thrown, closed_at_call, shots>>
    /\ UNCHANGED notComputer

\* steel_computer.py:215-276 and 294-301, a step of the action raises
XActionRaises ==
    /\ xpc = "action"
    /\ ~NoSteps(action)
    /\ \E msg \in (IF LacksArgument(action) THEN {ArgumentError(action)} ELSE Messages) :
         /\ thrown' = msg
         /\ outcome' = ExceptOutcome(msg)
    /\ xpc' = "returned"
    /\ UNCHANGED <<page_closed, page_url, action, performed, closed_at_call, shots>>
    /\ UNCHANGED notComputer

\* steel_computer.py:279-292, the screenshot is taken and the outcome returned
XScreenshot ==
    /\ xpc = "screenshot"
    /\ ~page_closed
    /\ shots' = shots + 1
    /\ outcome' = ImageOutcome(shots + 1, IF page_closed THEN "about:blank" ELSE page_url)
    /\ xpc' = "returned"
    /\ UNCHANGED <<page_closed, page_url, action, performed, thrown, closed_at_call>>
    /\ UNCHANGED notComputer

\* steel_computer.py:279 and 294-301, the screenshot raises
XScreenshotRaises ==
    /\ xpc = "screenshot"
    /\ \E msg \in Messages :
         /\ thrown' = msg
         /\ outcome' = ExceptOutcome(msg)
    /\ xpc' = "returned"
    /\ UNCHANGED <<page_closed, page_url, action, performed, closed_at_call, shots>>
    /\ UNCHANGED notComputer

\* steel_computer.py:110-128, the page is closed while the computer is in use
XPageCloses ==
    /\ xpc # "idle"
    /\ ~page_closed
    /\ page_closed' = TRUE
    /\ UNCHANGED <<page_url, xpc, action, outcome, performed, thrown, closed_at_call, shots>>
    /\ UNCHANGED notComputer

ComputerInit ==
    /\ page_closed = FALSE
    /\ page_url \in Urls
    /\ xpc = "ready"
    /\ action = NoAction
    /\ outcome = NoOutcome
    /\ performed = FALSE
    /\ thrown = None
    /\ closed_at_call = FALSE
    /\ shots = 0

ComputerNext ==
    XCall \/ XActionDone \/ XActionRaises \/ XScreenshot \/ XScreenshotRaises \/ XPageCloses

ComputerSpecInit ==
    StreamInit /\ BaseIdle /\ CuaIdle /\ EnvInit /\ TrimIdle /\ MsgTrimIdle /\ ComputerInit
    /\ BrowserIdle /\ ResumeIdle /\ ReleaseIdle

SpecComputer == ComputerSpecInit /\ [][ComputerNext]_vars

(***************************************************************************)
(* browser_use: the streaming loop of browser_use_agent with pause and     *)
(* resume (src/api/plugins/browser_use/agent.py).                          *)
(*                                                                         *)
(* The loop suspends at queue.get() and at every yield; the code between   *)
(* two suspensions is one action.  Pause requests, resume_execution, the   *)
(* step callbacks of the agent task and the start of another               *)
(* browser_use_agent run between them.  _agent_resumed is a module global: *)
(* every request of the process reads and writes the same flag, and        *)
(* controller.agent is the agent of the latest browser_use_agent.          *)
(***************************************************************************)

\* An AIMessage whose content holds "*Memory*:", "*Next Goal*:" or "*Previous Goal*:";
\* n numbers the commentary messages in the order the callbacks enqueue them.
Commentary(n) == [kind |-> "commentary", n |-> n]
StopItem == [kind |-> "stop", n |-> 0]
FinalMessage == [kind |-> "final", n |-> 0]
ToolCallsMessage == [kind |-> "tool_calls", n |-> 0]
ToolOutput == [kind |-> "tool", n |-> 0]
END == [kind |-> "END", n |-> 0]

\* The action lists of one agent output: one browser action, or done.
ActionLists == {<<"click">>, <<"done">>}

is_special_message(d) == d.kind = "commentary"

\* What yield_data enqueues for step number step with the actions acts, the
\* commentary numbered from n + 1.
PreviousGoal(step, n) ==
    IF step > 2 THEN <<Commentary(n + 1), StopItem>> ELSE <<>>
DoneItems(acts) ==
    IF acts[1] = "done" THEN <<FinalMessage, StopItem>> ELSE <<>>
ToolItems(acts) ==
    IF acts[1] = "done" THEN <<ToolCallsMessage>> ELSE <<ToolCallsMessage, ToolOutput>>
StepItems(step, acts, n) ==
    LET p == PreviousGoal(step, n)
        m == n + Len(p) \div 2
    IN  p \o <<Commentary(m + 1), StopItem, Commentary(m + 2), StopItem>>
          \o DoneItems(acts) \o ToolItems(acts)
StepCommentary(step) == IF step > 2 THEN 3 ELSE 2

\* The streaming loop has started and has not ended.
Live == lpc \in {"wait", "release", "release_timeout"}

\* Lines 225-242: the browser of the session is reused, or made and registered.
Registered(s) ==
    IF active_browsers[s] = "absent" THEN [active_browsers EXCEPT ![s] = "browser"]
    ELSE active_browsers

\* Lines 72-77 and 98-100 of a pause: the entries of controller.session_id are
\* written back, as None when the session had none.
WrittenBack ==
    IF controller_session_id = None THEN active_browsers
    ELSE [active_browsers EXCEPT ![controller_session_id] =
             IF @ = "absent" THEN None ELSE @]

\* browser_use_agent for session "B" up to its first queue.get().
LStart ==
    /\ lpc = "idle"
    /\ agent_resumed' = FALSE
    /\ agent_paused' = FALSE
    /\ controller_agent' = "ours"
    /\ controller_session_id' = "B"
    /\ active_browsers' = Registered("B")
    /\ agent_tasks' = [agent_tasks EXCEPT !["B"] = @ + 1]
    /\ request' = [cmd |-> "start", session_id |-> "B"]
    /\ lpc' = "wait"
    /\ UNCHANGED <<queue, pending_special_messages, has_pending_messages, data, release_left,
                   yielded, deferred_log, serial, callbacks, pauses, resumes, sleeping, starts,
                   pause_result>>
    /\ UNCHANGED notBrowser

\* Lines 366-386 for the dequeued item d, the pending list being p.
Deliver(p, d) ==
    IF is_special_message(d) /\ ~(agent_resumed \/ agent_paused = FALSE)
    THEN /\ pending_special_messages' = Append(p, d)
         /\ has_pending_messages' = TRUE
         /\ deferred_log' = deferred_log \cup {d.n}
         /\ yielded' = yielded
    ELSE /\ pending_special_messages' = p
         /\ has_pending_messages' = (IF p = <<>> THEN FALSE ELSE has_pending_messages)
         /\ deferred_log' = deferred_log
         /\ yielded' = Append(yielded, d)

\* The checks at the top of the loop: cancel_event is set, or the agent has
\* failed too often.
LBreak ==
    /\ lpc = "wait"
    /\ lpc' = "closed"
    /\ agent_tasks' = [agent_tasks EXCEPT !["B"] = @ - 1]
    /\ UNCHANGED <<agent_resumed, agent_paused, controller_agent, queue,
                   pending_special_messages, has_pending_messages, data, release_left,
                   yielded, deferred_log, serial, callbacks, pauses, resumes, sleeping, starts,
                   controller_session_id, active_browsers, request, pause_result>>
    /\ UNCHANGED notBrowser

\* queue.get() returns "END".
LEnd ==
    /\ lpc = "wait"
    /\ queue # <<>>
    /\ Head(queue) = END
    /\ queue' = Tail(queue)
    /\ lpc' = "closed"
    /\ agent_tasks' = [agent_tasks EXCEPT !["B"] = @ - 1]
    /\ UNCHANGED <<agent_resumed, agent_paused, controller_agent,
                   pending_special_messages, has_pending_messages, data, release_left,
                   yielded, deferred_log, serial, callbacks, pauses, resumes, sleeping, starts>>
    /\ UNCHANGED <<controller_session_id, active_browsers, request, pause_result, notBrowser>>

\* Lines 327-330 after an iteration: with cancel_event set the loop is at its
\* break, otherwise it waits on the queue again.
AfterIteration == IF cancel THEN "top" ELSE "wait"

\* An iteration that goes back to queue.get() without the test of cancel_event.
LDequeueNoRecheck ==
    /\ lpc = "wait"
    /\ queue # <<>>
    /\ Head(queue) # END
    /\ ~(agent_resumed /\ pending_special_messages # <<>>)
    /\ queue' = Tail(queue)
    /\ Deliver(pending_special_messages, Head(queue))
    /\ lpc' = "wait"
    /\ UNCHANGED <<agent_resumed, agent_paused, controller_agent, data, release_left,
                   serial, callbacks, pauses, resumes, sleeping, starts>>
    /\ UNCHANGED <<registryVars, notBrowser>>

\* queue.get() returns an item and nothing is released first.
LDequeue ==
    /\ lpc = "wait"
    /\ queue # <<>>
    /\ Head(queue) # END
    /\ ~(agent_resumed /\ pending_special_messages # <<>>)
    /\ queue' = Tail(queue)
    /\ Deliver(pending_special_messages, Head(queue))
    /\ lpc' = AfterIteration
    /\ UNCHANGED <<agent_resumed, agent_paused, controller_agent, data, release_left,
                   serial, callbacks, pauses, resumes, sleeping, starts>>
    /\ UNCHANGED <<registryVars, notBrowser>>

\* queue.get() returns an item and the release of the pending messages begins:
\* the first of them is yielded.
LDequeueRelease ==
    /\ lpc = "wait"
    /\ queue # <<>>
    /\ Head(queue) # END
    /\ agent_resumed /\ pending_special_messages # <<>>
    /\ queue' = Tail(queue)
    /\ data' = Head(queue)
    /\ yielded' = Append(yielded, Head(pending_special_messages))
    /\ release_left' = Tail(pending_special_messages)
    /\ lpc' = "release"
    /\ UNCHANGED <<agent_resumed, agent_paused, controller_agent,
                   pending_special_messages, has_pending_messages, deferred_log,
                   serial, callbacks, pauses, resumes, sleeping, starts>>
    /\ UNCHANGED <<registryVars, notBrowser>>

\* The for loop of line 360 (or 347) yields its next message.
LReleaseNext ==
    /\ lpc \in {"release", "release_timeout"}
    /\ release_left # <<>>
    /\ yielded' = Append(yielded, Head(release_left))
    /\ release_left' = Tail(release_left)
    /\ UNCHANGED <<agent_resumed, agent_paused, controller_agent, queue,
                   pending_special_messages, has_pending_messages, lpc, data, deferred_log,
                   serial, callbacks, pauses, resumes, sleeping, starts>>
    /\ UNCHANGED <<registryVars, notBrowser>>

\* The for loop of line 360 is over: the list is cleared and the dequeued item handled.
LReleaseDone ==
    /\ lpc = "release"
    /\ release_left = <<>>
    /\ Deliver(<<>>, data)
    /\ data' = NoData
    /\ lpc' = AfterIteration
    /\ UNCHANGED <<agent_resumed, agent_paused, controller_agent, queue, release_left,
                   serial, callbacks, pauses, resumes, sleeping, starts>>
    /\ UNCHANGED <<registryVars, notBrowser>>

\* queue.get() times out and the release of the pending messages begins.
LTimeoutRelease ==
    /\ lpc = "wait"
    /\ queue = <<>>
    /\ agent_resumed /\ has_pending_messages
    /\ pending_special_messages # <<>>
    /\ yielded' = Append(yielded, Head(pending_special_messages))
    /\ release_left' = Tail(pending_special_messages)
    /\ lpc' = "release_timeout"
    /\ UNCHANGED <<agent_resumed, agent_paused, controller_agent, queue,
                   pending_special_messages, has_pending_messages, data, deferred_log,
                   serial, callbacks, pauses, resumes, sleeping, starts>>
    /\ UNCHANGED <<registryVars, notBrowser>>

\* The for loop of line 347 is over.
LTimeoutReleaseDone ==
    /\ lpc = "release_timeout"
    /\ release_left = <<>>
    /\ pending_special_messages' = <<>>
    /\ has_pending_messages' = FALSE
    /\ lpc' = AfterIteration
    /\ UNCHANGED <<agent_resumed, agent_paused, controller_agent, queue, data, release_left,
                   yielded, deferred_log, serial, callbacks, pauses, resumes, sleeping, starts>>
    /\ UNCHANGED <<registryVars, notBrowser>>

\* The done callback has run: "END" is the last item of the queue.
EndQueued == IF queue = <<>> THEN FALSE ELSE queue[Len(queue)] = END

\* The step callback of the agent task.
yield_data(acts) ==
    /\ Live
    /\ callbacks < MaxCallbacks
    /\ ~EndQueued
    /\ queue' = queue \o StepItems(callbacks + 1, acts, serial)
    /\ serial' = serial + StepCommentary(callbacks + 1)
    /\ callbacks' = callbacks + 1
    /\ UNCHANGED <<agent_resumed, agent_paused, controller_agent,
                   pending_special_messages, has_pending_messages, lpc, data, release_left,
                   yielded, deferred_log, pauses, resumes, sleeping, starts>>
    /\ UNCHANGED <<registryVars, notBrowser>>

\* The done callback of the agent task.
yield_done ==
    /\ Live
    /\ callbacks > 0
    /\ ~EndQueued
    /\ queue' = Append(queue, END)
    /\ UNCHANGED <<agent_resumed, agent_paused, controller_agent,
                   pending_special_messages, has_pending_messages, lpc, data, release_left,
                   yielded, deferred_log, serial, callbacks, pauses, resumes, sleeping, starts>>
    /\ UNCHANGED <<registryVars, notBrowser>>

\* What a pause does: the flag is cleared, controller.agent is paused and the
\* registry entries of controller.session_id are written back.
Paused ==
    /\ agent_resumed' = FALSE
    /\ agent_paused' = (IF controller_agent = "ours" THEN TRUE ELSE agent_paused)
    /\ active_browsers' = WrittenBack

\* pause_execution, the controller action an agent step calls.
pause_execution ==
    /\ Live
    /\ controller_agent # None
    /\ pauses < MaxPauses
    /\ Paused
    /\ pauses' = pauses + 1
    /\ request' = [cmd |-> "pause_action", session_id |-> controller_session_id]
    /\ UNCHANGED <<controller_agent, queue, pending_special_messages, has_pending_messages,
                   lpc, data, release_left, yielded, deferred_log, serial, callbacks,
                   resumes, sleeping, starts, controller_session_id, agent_tasks,
                   pause_result>>
    /\ UNCHANGED notBrowser

\* pause_execution_manually without its session id check.
pause_execution_manually_any(s) ==
    /\ pauses < MaxPauses
    /\ pauses' = pauses + 1
    /\ request' = [cmd |-> "pause", session_id |-> s]
    /\ IF controller_agent = None
       THEN /\ pause_result' = "error"
            /\ UNCHANGED <<agent_resumed, agent_paused, active_browsers>>
       ELSE /\ pause_result' = "success"
            /\ Paused
    /\ UNCHANGED <<controller_agent, queue, pending_special_messages, has_pending_messages,
                   lpc, data, release_left, yielded, deferred_log, serial, callbacks,
                   resumes, sleeping, starts, controller_session_id, agent_tasks>>
    /\ UNCHANGED notBrowser

\* pause_session and pause_execution_manually for session id s.
pause_execution_manually(s) ==
    /\ pauses < MaxPauses
    /\ pauses' = pauses + 1
    /\ request' = [cmd |-> "pause", session_id |-> s]
    /\ IF controller_agent = None \/ controller_session_id # s
       THEN /\ pause_result' = "error"
            /\ UNCHANGED <<agent_resumed, agent_paused, active_browsers>>
       ELSE /\ pause_result' = "success"
            /\ Paused
    /\ UNCHANGED <<controller_agent, queue, pending_special_messages, has_pending_messages,
                   lpc, data, release_left, yielded, deferred_log, serial, callbacks,
                   resumes, sleeping, starts, controller_session_id, agent_tasks>>
    /\ UNCHANGED notBrowser

\* resume_execution up to its sleep: the flag is set and the agent resumed.
ResumeTakesEffect ==
    /\ controller_agent # None
    /\ agent_resumed' = TRUE
    /\ agent_paused' = (IF controller_agent = "ours" THEN FALSE ELSE agent_paused)
    /\ resumes' = resumes + 1
    /\ sleeping' = sleeping + 1

\* resume_execution after its sleep: an agent still paused is forced out of the pause.
ResumeVerified ==
    /\ sleeping > 0
    /\ agent_paused' = (IF controller_agent = "ours" THEN FALSE ELSE agent_paused)
    /\ sleeping' = sleeping - 1

\* A resume request for session id s reaches resume_execution.
resume_execution(s) ==
    /\ Live
    /\ resumes < MaxResumes
    /\ ResumeTakesEffect
    /\ request' = [cmd |-> "resume", session_id |-> s]
    /\ UNCHANGED <<controller_agent, queue, pending_special_messages, has_pending_messages,
                   lpc, data, release_left, yielded, deferred_log, serial, callbacks,
                   pauses, starts, controller_session_id, active_browsers, agent_tasks,
                   pause_result>>
    /\ UNCHANGED notBrowser

resume_execution_returns ==
    /\ Live
    /\ ResumeVerified
    /\ UNCHANGED <<agent_resumed, controller_agent, queue, pending_special_messages,
                   has_pending_messages, lpc, data, release_left, yielded, deferred_log,
                   serial, callbacks, pauses, resumes, starts, registryVars>>
    /\ UNCHANGED notBrowser

\* Another browser_use_agent starts in the same process, for session id s: the
\* global flag is reset, its agent becomes controller.agent and its task runs.
OtherAgentStarts(s) ==
    /\ Live
    /\ starts < MaxStarts
    /\ agent_resumed' = FALSE
    /\ controller_agent' = "other"
    /\ controller_session_id' = s
    /\ active_browsers' = Registered(s)
    /\ agent_tasks' = [agent_tasks EXCEPT ![s] = @ + 1]
    /\ request' = [cmd |-> "start", session_id |-> s]
    /\ starts' = starts + 1
    /\ UNCHANGED <<agent_paused, queue, pending_special_messages, has_pending_messages,
                   lpc, data, release_left, yielded, deferred_log, serial, callbacks,
                   pauses, resumes, sleeping, pause_result>>
    /\ UNCHANGED notBrowser

BrowserInit == BrowserIdle

BrowserNext ==
    \/ LStart
    \/ LBreak
    \/ LEnd
    \/ LDequeue
    \/ LDequeueRelease
    \/ LReleaseNext
    \/ LReleaseDone
    \/ LTimeoutRelease
    \/ LTimeoutReleaseDone
    \/ \E acts \in ActionLists : yield_data(acts)
    \/ yield_done
    \/ pause_execution
    \/ Live /\ \E s \in Sessions : pause_execution_manually(s)
    \/ \E s \in Sessions : resume_execution(s)
    \/ resume_execution_returns
    \/ \E s \in Sessions : OtherAgentStarts(s)

BrowserSpecInit ==
    StreamInit /\ BaseIdle /\ CuaIdle /\ EnvInit /\ TrimIdle /\ MsgTrimIdle /\ ComputerIdle
    /\ BrowserInit /\ ResumeIdle /\ ReleaseIdle

SpecBrowser == BrowserSpecInit /\ [][BrowserNext]_vars

(***************************************************************************)
(* browser_use_agent with its cancellation signal.  cancel_event is set    *)
(* while the generator is suspended, in queue.get() or at a yield; the     *)
(* loop sees it at line 327, which follows every iteration at once.        *)
(***************************************************************************)
\* Lines 341-351: queue.get() times out and nothing is to be released.
LPollTimeout ==
    /\ lpc = "wait"
    /\ queue = <<>>
    /\ ~(agent_resumed /\ has_pending_messages)
    /\ lpc' = AfterIteration
    /\ UNCHANGED <<agent_resumed, agent_paused, controller_agent, queue,
                   pending_special_messages, has_pending_messages, data, release_left,
                   yielded, deferred_log, serial, callbacks, pauses, resumes, sleeping, starts>>
    /\ UNCHANGED <<registryVars, notBrowser>>

\* Lines 327-330: agent.stop(), agent_task.cancel(), break.
LCancelled ==
    /\ lpc = "top"
    /\ lpc' = "closed"
    /\ agent_tasks' = [agent_tasks EXCEPT !["B"] = @ - 1]
    /\ UNCHANGED <<agent_resumed, agent_paused, controller_agent, queue,
                   pending_special_messages, has_pending_messages, data, release_left,
                   yielded, deferred_log, serial, callbacks, pauses, resumes, sleeping, starts,
                   controller_session_id, active_browsers, request, pause_result>>
    /\ UNCHANGED notBrowser

\* index.py:240-242, the signal is set while the loop is suspended.
LSetCancel ==
    /\ Live
    /\ ~cancel
    /\ cancel' = TRUE
    /\ UNCHANGED <<streamVars, baseVars, streams, invocations, cuaVars, libVars>>

\* The steps of the streaming loop.
LoopNext ==
    \/ LStart
    \/ LBreak
    \/ LEnd
    \/ LDequeue
    \/ LDequeueRelease
    \/ LReleaseNext
    \/ LReleaseDone
    \/ LTimeoutRelease
    \/ LTimeoutReleaseDone
    \/ LPollTimeout
    \/ LCancelled

\* The loop with an agent whose steps are browser actions, a pause, a resume
\* request followed up to the sleep of resume_execution, and the signal.
PollNext ==
    \/ LoopNext
    \/ yield_data(<<"click">>)
    \/ yield_done
    \/ pause_execution
    \/ resume_execution("B")
    \/ LSetCancel

PollSpecInit ==
    StreamInit /\ BaseIdle /\ CuaIdle /\ EnvInit /\ TrimIdle /\ MsgTrimIdle /\ ComputerIdle
    /\ BrowserInit /\ ResumeIdle /\ ReleaseIdle

\* The consumer keeps iterating the generator: a step of the loop that can be
\* taken is taken, and queue.get() returns or times out.
SpecPoll == PollSpecInit /\ [][PollNext]_vars /\ WF_vars(LoopNext)

(***************************************************************************)
(* pause_session (src/api/index.py) and pause_execution_manually, from any *)
(* state of the controller: no agent, or the agent of one session (that of *)
(* the loop followed here, or another one) with its browser registered.    *)
(***************************************************************************)
PauseInit ==
    /\ controller_agent \in {"ours", "other", None}
    /\ controller_session_id \in (IF controller_agent = None THEN {None} ELSE Sessions)
    /\ active_browsers \in [Sessions -> {"absent", "browser"}]
    /\ controller_session_id # None => active_browsers[controller_session_id] = "browser"
    /\ agent_tasks = [s \in Sessions |-> IF s = controller_session_id THEN 1 ELSE 0]
    /\ request = NoRequest
    /\ pause_result = None
    /\ agent_resumed \in BOOLEAN
    /\ agent_paused \in (IF controller_agent = None THEN {FALSE} ELSE BOOLEAN)
    /\ queue = <<>>
    /\ pending_special_messages = <<>>
    /\ has_pending_messages = FALSE
    /\ lpc = "idle"
    /\ data = NoData
    /\ release_left = <<>>
    /\ yielded = <<>>
    /\ deferred_log = {}
    /\ serial = 0
    /\ callbacks = 0
    /\ pauses = 0
    /\ resumes = 0
    /\ sleeping = 0
    /\ starts = 0

PauseNext == \E s \in Sessions : pause_execution_manually(s)

PauseSpecInit ==
    StreamInit /\ BaseIdle /\ CuaIdle /\ EnvInit /\ TrimIdle /\ MsgTrimIdle /\ ComputerIdle
    /\ PauseInit /\ ResumeIdle /\ ReleaseIdle

SpecPause == PauseSpecInit /\ [][PauseNext]_vars

(***************************************************************************)
(* resume_session (src/api/index.py): the cooldown, the session lock and   *)
(* up to two attempts of resume_execution.  Time is counted in tenths of a *)
(* second.  The call suspends where it waits for the lock, in the sleep of *)
(* resume_execution and in the sleep before its second attempt.            *)
(*                                                                         *)
(* asyncio.wait_for(lock.acquire(), 0.5) on a free lock: up to Python 3.11 *)
(* wait_for wraps the coroutine in a task and the caller suspends until    *)
(* that task has run; from Python 3.12 it awaits the coroutine in place    *)
(* and a free lock is taken without a suspension.  The repository pins no  *)
(* Python version: wait_for_suspends is fixed, either way, at the start.   *)
(***************************************************************************)
RESUME_COOLDOWN == 10
LOCK_TIMEOUT == 5
RESUME_DELAY == 2

\* Lines 98-107: the session was resumed less than RESUME_COOLDOWN ago.
InCooldown(t) ==
    IF session_last_resume = <<>> THEN FALSE
    ELSE t - session_last_resume[1] < RESUME_COOLDOWN

\* Lines 131-155 for call c, the lock taken: the timestamp is written and the
\* first attempt of resume_execution runs up to its sleep, or fails at once:
\* it raises, or it returns an error status because the controller has no
\* agent; resume_session then sleeps 0.2 s before its second attempt.
Locked(c, raises) ==
    /\ session_locks' = c
    /\ session_last_resume' = <<call_now'[c]>>
    /\ since' = [since EXCEPT ![c] = clock]
    /\ attempts' = [attempts EXCEPT ![c] = 1]
    /\ last_error' = [last_error EXCEPT ![c] = raises]
    /\ IF raises \/ controller_agent = None
       THEN /\ rpc' = [rpc EXCEPT ![c] = "retrying"]
            /\ UNCHANGED <<agent_resumed, agent_paused, resumes, sleeping>>
       ELSE /\ rpc' = [rpc EXCEPT ![c] = "executing"]
            /\ ResumeTakesEffect

\* A call arrives within the cooldown: success, and nothing is done.
RArriveCooldown(c) ==
    /\ rpc[c] = "idle"
    /\ InCooldown(clock)
    /\ call_now' = [call_now EXCEPT ![c] = clock]
    /\ rpc' = [rpc EXCEPT ![c] = "returned"]
    /\ status' = [status EXCEPT ![c] = "success"]
    /\ UNCHANGED <<clock, session_last_resume, session_locks, since, wait_for_suspends,
                   attempts, last_error>>
    /\ UNCHANGED <<agent_resumed, agent_paused, resumes, sleeping, notResume>>

\* A call arrives outside the cooldown and takes the free lock without suspending.
RArriveLocks(c) ==
    /\ rpc[c] = "idle"
    /\ ~InCooldown(clock)
    /\ ~wait_for_suspends
    /\ session_locks = 0
    /\ call_now' = [call_now EXCEPT ![c] = clock]
    /\ \E raises \in BOOLEAN : Locked(c, raises)
    /\ UNCHANGED <<clock, status, wait_for_suspends, notResume>>

\* A call arrives outside the cooldown and suspends in wait_for.
RArriveWaits(c) ==
    /\ rpc[c] = "idle"
    /\ ~InCooldown(clock)
    /\ wait_for_suspends \/ session_locks # 0
    /\ call_now' = [call_now EXCEPT ![c] = clock]
    /\ since' = [since EXCEPT ![c] = clock]
    /\ rpc' = [rpc EXCEPT ![c] = "acquiring"]
    /\ UNCHANGED <<clock, session_last_resume, session_locks, status, wait_for_suspends,
                   attempts, last_error>>
    /\ UNCHANGED <<agent_resumed, agent_paused, resumes, sleeping, notResume>>

\* The suspended call gets the lock.
RAcquire(c) ==
    /\ rpc[c] = "acquiring"
    /\ session_locks = 0
    /\ clock - since[c] < LOCK_TIMEOUT
    /\ call_now' = call_now
    /\ \E raises \in BOOLEAN : Locked(c, raises)
    /\ UNCHANGED <<clock, status, wait_for_suspends, notResume>>

\* The suspended call waits 0.5 s in vain: success, and nothing is done.
RTimeout(c) ==
    /\ rpc[c] = "acquiring"
    /\ clock - since[c] >= LOCK_TIMEOUT
    /\ rpc' = [rpc EXCEPT ![c] = "returned"]
    /\ status' = [status EXCEPT ![c] = "success"]
    /\ UNCHANGED <<clock, session_last_resume, session_locks, call_now, since, wait_for_suspends,
                   attempts, last_error>>
    /\ UNCHANGED <<agent_resumed, agent_paused, resumes, sleeping, notResume>>

\* resume_execution returns success: the call returns it and releases the lock.
RSucceeds(c) ==
    /\ rpc[c] = "executing"
    /\ clock - since[c] >= RESUME_DELAY
    /\ ResumeVerified
    /\ rpc' = [rpc EXCEPT ![c] = "returned"]
    /\ status' = [status EXCEPT ![c] = "success"]
    /\ session_locks' = 0
    /\ UNCHANGED <<clock, session_last_resume, call_now, since, wait_for_suspends,
                   attempts, last_error>>
    /\ UNCHANGED <<agent_resumed, resumes, notResume>>

\* The last attempt has failed and the lock is kept.
FailedKeepsLock(c) ==
    /\ rpc' = [rpc EXCEPT ![c] = "returned"]
    /\ status' = [status EXCEPT ![c] = IF last_error'[c] THEN "http500" ELSE "error"]
    /\ session_locks' = session_locks
    /\ UNCHANGED <<since, agent_resumed, agent_paused, resumes, sleeping>>

\* The last attempt has failed: resume_session raises what the attempts raised
\* (the HTTP error 500 of line 166) or returns an error status; the lock is released.
Failed(c) ==
    /\ rpc' = [rpc EXCEPT ![c] = "returned"]
    /\ status' = [status EXCEPT ![c] = IF last_error'[c] THEN "http500" ELSE "error"]
    /\ session_locks' = 0
    /\ UNCHANGED <<since, agent_resumed, agent_paused, resumes, sleeping>>

\* A retry that is followed by another sleep and another retry.
RRetryAgain(c) ==
    /\ rpc[c] = "retrying"
    /\ clock - since[c] >= RESUME_DELAY
    /\ attempts[c] <= MaxTime
    /\ attempts' = [attempts EXCEPT ![c] = @ + 1]
    /\ since' = [since EXCEPT ![c] = clock]
    /\ UNCHANGED <<rpc, status, session_locks, last_error, agent_resumed, agent_paused,
                   resumes, sleeping>>
    /\ UNCHANGED <<clock, session_last_resume, call_now, wait_for_suspends, notResume>>

\* The second attempt, after the sleep of line 150 or 155.
RRetry(c) ==
    /\ rpc[c] = "retrying"
    /\ clock - since[c] >= RESUME_DELAY
    /\ attempts' = [attempts EXCEPT ![c] = @ + 1]
    /\ \E raises \in BOOLEAN :
          /\ last_error' = [last_error EXCEPT ![c] = @ \/ raises]
          /\ IF raises \/ controller_agent = None
             THEN Failed(c)
             ELSE /\ rpc' = [rpc EXCEPT ![c] = "executing"]
                  /\ since' = [since EXCEPT ![c] = clock]
                  /\ ResumeTakesEffect
                  /\ UNCHANGED <<status, session_locks>>
    /\ UNCHANGED <<clock, session_last_resume, call_now, wait_for_suspends, notResume>>

\* Time passes.  A free lock is taken by the task that waits for it before
\* the clock moves on.
Tick ==
    /\ clock < MaxTime
    /\ \A c \in Calls : rpc[c] = "acquiring" => session_locks # 0
    /\ clock' = clock + 1
    /\ UNCHANGED <<session_last_resume, session_locks, rpc, call_now, since, status,
                   wait_for_suspends, attempts, last_error>>
    /\ UNCHANGED <<agent_resumed, agent_paused, resumes, sleeping, notResume>>

\* A paused session with its agent, or a session whose agent is gone.
ResumeInit ==
    /\ clock = 0
    /\ session_last_resume = <<>>
    /\ session_locks = 0
    /\ rpc = [c \in Calls |-> "idle"]
    /\ call_now = [c \in Calls |-> 0]
    /\ since = [c \in Calls |-> 0]
    /\ status = [c \in Calls |-> None]
    /\ wait_for_suspends \in BOOLEAN
    /\ attempts = [c \in Calls |-> 0]
    /\ last_error = [c \in Calls |-> FALSE]
    /\ controller_agent \in {"ours", None}
    /\ controller_session_id = (IF controller_agent = "ours" THEN "B" ELSE None)
    /\ active_browsers = [s \in Sessions |-> IF s = "B" /\ controller_agent = "ours"
                                              THEN "browser" ELSE "absent"]
    /\ agent_tasks = [s \in Sessions |-> IF s = "B" /\ controller_agent = "ours" THEN 1 ELSE 0]
    /\ request = NoRequest
    /\ pause_result = None
    /\ agent_paused = (controller_agent = "ours")
    /\ agent_resumed = FALSE
    /\ queue = <<>>
    /\ pending_special_messages = <<>>
    /\ has_pending_messages = FALSE
    /\ lpc = "idle"
    /\ data = NoData
    /\ release_left = <<>>
    /\ yielded = <<>>
    /\ deferred_log = {}
    /\ serial = 0
    /\ callbacks = 0
    /\ pauses = 0
    /\ resumes = 0
    /\ sleeping = 0
    /\ starts = 0

ResumeNext ==
    \/ \E c \in Calls : RArriveCooldown(c)
    \/ \E c \in Calls : RArriveLocks(c)
    \/ \E c \in Calls : RArriveWaits(c)
    \/ \E c \in Calls : RAcquire(c)
    \/ \E c \in Calls : RTimeout(c)
    \/ \E c \in Calls : RSucceeds(c)
    \/ \E c \in Calls : RRetry(c)
    \/ Tick

ResumeSpecInit ==
    StreamInit /\ BaseIdle /\ CuaIdle /\ EnvInit /\ TrimIdle /\ MsgTrimIdle /\ ComputerIdle
    /\ ResumeInit /\ ReleaseIdle

SpecResume == ResumeSpecInit /\ [][ResumeNext]_vars

(***************************************************************************)
(* release_session (src/api/index.py).  The Steel client is outside the    *)
(* repository: a release of a live session returns and stops the session,  *)
(* a release of a released session returns or raises an error that says    *)
(* "Session already stopped", and any call may fail for another reason.    *)
(***************************************************************************)
AlreadyStopped == "Session already stopped"

\* The messages of the errors the client raises; Mentions(m) is the test
\* "Session already stopped" in str(e).
StoppedMessages == {AlreadyStopped, "Error code: 400 - Session already stopped"}
OtherMessages == {"Connection error", "Request timed out"}
Mentions(m) == m \in StoppedMessages

\* What steel_client.sessions.release(s) can do: return, or raise with a message.
ClientOutcomes(s) ==
    IF steel_sessions[s] = "live"
    THEN {"returns"} \cup OtherMessages
    ELSE {"returns"} \cup StoppedMessages \cup OtherMessages

\* The except clause of release_session, re-raising whatever was raised.
ReleaseResponseStrict(result) ==
    IF result = "returns" THEN "success" ELSE "raised"

\* What release_session answers.
ReleaseResponse(result) ==
    IF result = "returns" THEN "success"
    ELSE IF Mentions(result) THEN "success"
    ELSE "raised"

release_session(s, result) ==
    /\ releases < MaxReleases
    /\ result \in ClientOutcomes(s)
    /\ releases' = releases + 1
    /\ release_call' = [session_id |-> s, was_released |-> steel_sessions[s] = "released",
                        client |-> result]
    /\ steel_sessions' = IF result = "returns" THEN [steel_sessions EXCEPT ![s] = "released"]
                         ELSE steel_sessions
    /\ release_response' = ReleaseResponse(result)
    /\ UNCHANGED notRelease

ReleaseInit == ReleaseIdle

ReleaseNext ==
    \E s \in Sessions, result \in {"returns"} \cup StoppedMessages \cup OtherMessages :
        release_session(s, result)

ReleaseSpecInit ==
    StreamInit /\ BaseIdle /\ CuaIdle /\ EnvInit /\ TrimIdle /\ MsgTrimIdle /\ ComputerIdle
    /\ BrowserIdle /\ ResumeIdle /\ ReleaseInit

SpecRelease == ReleaseSpecInit /\ [][ReleaseNext]_vars

(***************************************************************************)
(* Helpers of the properties.                                              *)
(***************************************************************************)
Last(s) == s[Len(s)]

\* The events the step from the current state to the next one has emitted.
NewEvents == SubSeq(wire', Len(wire) + 1, Len(wire'))

\* The step consumes a chunk.
Consumes == Len(log') = Len(log) + 1

IsPrefix(s, t) == Len(s) <= Len(t) /\ s = SubSeq(t, 1, Len(s))

\* The chunk takes the tool-result branch of the loop body.
IsResultChunk(c) ==
    c.tool_call_chunks = <<>> /\ c.tool_calls = <<>> /\ c.tool_call_id # None

\* The chunk takes the streamed tool-call branch of the loop body.
IsFragmentChunk(c) == c.tool_call_chunks # <<>>

\* The loop body run over a whole chunk sequence, from the initial local state.
RECURSIVE Replay(_)
Replay(chunks) ==
    IF chunks = <<>> THEN [wire |-> <<>>, draft |-> <<>>, pending |-> {}]
    ELSE StreamStep(Replay(SubSeq(chunks, 1, Len(chunks) - 1)), Last(chunks))

(***************************************************************************)
(* C1: whatever the source delivers, and also when iterating it raises,    *)
(* the wire ends with exactly one terminal finish event (e: with           *)
(* finishReason "stop"): the event is on the wire iff the generator is     *)
(* done, it occurs once, and it is the last event.                         *)
(***************************************************************************)
C1_OneTerminalFinish ==
    /\ (spc = "done") <=> (\E i \in DOMAIN wire : wire[i] = EvFinalFinish)
    /\ \A i \in DOMAIN wire : wire[i] = EvFinalFinish => i = Len(wire)

C1_Witness ==
    /\ spc = "done"
    /\ exc # None
    /\ Len(wire) >= 4
    /\ \E i \in DOMAIN wire : wire[i] = EvToolCallsFinish

(***************************************************************************)
(* C2: when iterating the source raises, the events already emitted stay,  *)
(* exactly one 3: event with the exception's message and then the terminal *)
(* finish are appended, and the generator ends normally.                   *)
(***************************************************************************)
C2_ErrorThenFinish ==
    [][(exc = None /\ exc' # None) =>
          /\ wire' = wire \o <<Ev3(JsonDumps(exc')), EvFinalFinish>>
          /\ spc' = "done"
          /\ Cardinality({i \in DOMAIN wire' : wire'[i].tag = "3"}) = 1]_vars

C2_Witness ==
    /\ exc # None
    /\ Len(wire) >= 4
    /\ wire[Len(wire) - 1] = Ev3(JsonDumps(exc))

(***************************************************************************)
(* C3: a chunk of streamed tool-call fragments emits nothing but 9: events,*)
(* and each 9: event it emits carries the accumulated argument buffer of a *)
(* draft, which parses as JSON; a buffer that does not parse is held       *)
(* without an event and without an error.                                  *)
(***************************************************************************)
Parses(s) ==
    \E a, b, c \in 0..Len(s) :
        /\ a + b + c + 2 = Len(s)
        /\ \A i \in 1..Len(s) :
              s[i] = (IF i = a + 1 THEN "{" ELSE IF i = a + b + 2 THEN "}" ELSE " ")

C3_NoAnnounceUntilParseable ==
    [][(Consumes /\ IsFragmentChunk(Last(log'))) =>
          /\ spc' = "iter"
          /\ \A k \in DOMAIN NewEvents :
                /\ NewEvents[k].tag = "9"
                /\ Parses(NewEvents[k].args)
                /\ \E i \in DOMAIN draft_tool_calls' :
                      /\ \E j \in DOMAIN Last(log').tool_call_chunks :
                            Last(log').tool_call_chunks[j].index = i
                      /\ draft_tool_calls'[i].id = NewEvents[k].toolCallId
                      /\ IsPrefix(NewEvents[k].args, draft_tool_calls'[i].arguments)]_vars

C3_Witness ==
    /\ spc = "iter"
    /\ wire = <<>>
    /\ Len(log) >= 2
    /\ \E i \in DOMAIN draft_tool_calls :
          /\ Len(draft_tool_calls[i].arguments) >= 2
          /\ ~Parses(draft_tool_calls[i].arguments)

(***************************************************************************)
(* C5: a tool-result chunk emits its a: event and, directly after it, a    *)
(* mid-stream finish with reason "tool-calls" iff the pending set, with    *)
(* the result's id removed, is empty; a batch of two calls announced       *)
(* together while nothing was pending gets this finish once, after the     *)
(* second of its two results.                                              *)
(***************************************************************************)
IsBatchOfTwo(c) ==
    /\ c.tool_call_chunks = <<>>
    /\ Len(c.tool_calls) = 2
    /\ c.tool_calls[1].id # c.tool_calls[2].id

C5_FinishWhenPendingEmpties ==
    /\ [][(Consumes /\ IsResultChunk(Last(log'))) =>
            LET c == Last(log')
                a == EvA(c.tool_call_id, JsonDumps(c.content))
            IN  /\ pending_tool_calls' = pending_tool_calls \ {c.tool_call_id}
                /\ NewEvents = (IF pending_tool_calls' = {} THEN <<a, EvToolCallsFinish>>
                                                           ELSE <<a>>)]_vars
    /\ [](\A n \in 3..Len(log) :
            LET pre == Replay(SubSeq(log, 1, n - 3))
                b == log[n - 2]
            IN  (/\ pre.pending = {}
                 /\ IsBatchOfTwo(b)
                 /\ IsResultChunk(log[n - 1]) /\ IsResultChunk(log[n])
                 /\ {log[n - 1].tool_call_id, log[n].tool_call_id}
                        = {b.tool_calls[1].id, b.tool_calls[2].id})
                => LET now == Replay(SubSeq(log, 1, n))
                       out == SubSeq(now.wire, Len(Replay(SubSeq(log, 1, n - 2)).wire) + 1,
                                     Len(now.wire))
                   IN  /\ Len(out) = 3
                       /\ out[1].tag = "a" /\ out[2].tag = "a"
                       /\ out[3] = EvToolCallsFinish
                       /\ IsPrefix(now.wire, wire))

C5_Witness ==
    /\ Len(log) = 3
    /\ IsBatchOfTwo(log[1])
    /\ IsResultChunk(log[2]) /\ IsResultChunk(log[3])
    /\ log[2].tool_call_id # log[3].tool_call_id
    /\ Len(wire) >= 3
    /\ wire[Len(wire)] = EvToolCallsFinish
    /\ wire[Len(wire) - 1].tag = "a"
    /\ wire[Len(wire) - 2].tag = "a"

(***************************************************************************)
(* The fragments of one streamed call, as the provider sent them: an entry *)
(* that carries an id starts (or continues) that call at its index, an     *)
(* entry without an id continues the call last started at its index.       *)
(***************************************************************************)
RECURSIVE FragsOfCall(_, _, _)
FragsOfCall(entries, owner, id) ==
    IF entries = <<>> THEN <<>>
    ELSE LET h == Head(entries)
             now == IF h.index # None /\ h.id # None THEN Put(owner, h.index, h.id) ELSE owner
             mine == h.index \in DOMAIN now /\ now[h.index] = id
         IN  (IF mine THEN h.args ELSE <<>>) \o FragsOfCall(Tail(entries), now, id)

RECURSIVE NameOfCall(_, _)
NameOfCall(entries, id) ==
    IF entries = <<>> THEN None
    ELSE IF Head(entries).id = id THEN Head(entries).name
    ELSE NameOfCall(Tail(entries), id)

C6_ResultAfterAnnounce ==
    \A k \in DOMAIN wire :
        wire[k].tag = "a" =>
            \E j \in 1..(k - 1) :
                wire[j].tag = "9" /\ wire[j].toolCallId = wire[k].toolCallId

\* The model streams a single tool call, then on the next call a final text and
\* no tool call.
IsSingleCallScript(sc) ==
    /\ Len(GatheredToolCalls([some |-> TRUE, chunks |-> sc])) = 1
    /\ \A i \in DOMAIN sc : ~Truthy(sc[i].content)

IsTextScript(sc) ==
    /\ sc # <<>>
    /\ \A i \in DOMAIN sc : sc[i].tool_call_chunks = <<>> /\ Truthy(sc[i].content)

RECURSIVE WholeText(_)
WholeText(sc) == IF sc = <<>> THEN "" ELSE Head(sc).content.text \o WholeText(Tail(sc))

TheCall(sc) == GatheredToolCalls([some |-> TRUE, chunks |-> sc])[1]

ToolThenText ==
    /\ bpc = "closed"
    /\ exc = None
    /\ ~cancel
    /\ Len(scripts) = 2
    /\ IsSingleCallScript(scripts[1])
    /\ IsTextScript(scripts[2])

(***************************************************************************)
(* C7: when the model streams a single tool call t1 and, on the next call, *)
(* a final text with no tool call, the wire is exactly 9: t1, a: t1,       *)
(* e: tool-calls, the final text (one 0: per chunk the model streamed it   *)
(* in), e: stop, and nothing else.                                         *)
(***************************************************************************)
C7_ToolThenTextWire ==
    ToolThenText =>
        wire = <<Ev9(TheCall(scripts[1]).id, TheCall(scripts[1]).name, TheCall(scripts[1]).args),
                 EvA(TheCall(scripts[1]).id, JsonDumps(StrContent("r"))),
                 EvToolCallsFinish>>
               \o [k \in 1..Len(scripts[2]) |-> Ev0(JsonDumps(scripts[2][k].content.text))]
               \o <<EvFinalFinish>>

(***************************************************************************)
(* C9: once the cancellation signal is set, base_agent starts no model     *)
(* stream and no tool invocation any more, wherever in the loop it is, and *)
(* every step it takes brings it closer to its end: an invocation in       *)
(* flight completes and is yielded, everything else leaves the loop.       *)
(***************************************************************************)
Rank(pc) ==
    CASE pc = "invoke" -> 4
      [] pc = "yielded" -> 3
      [] pc = "top" -> 2
      [] pc = "stream" -> 2
      [] pc = "end" -> 1
      [] OTHER -> 0

C9_NoNewWorkAfterCancel ==
    [][cancel =>
          /\ streams' = streams
          /\ invocations' = invocations
          /\ Rank(bpc') < Rank(bpc)]_vars

C9_Witness ==
    /\ cancel
    /\ bpc = "closed"
    /\ exc = None
    /\ streams = 1
    /\ invocations = 1
    /\ Len(GatheredToolCalls(gathered)) = 2
    /\ Len(wire) >= 4

(***************************************************************************)
(* C8: when the call to the model endpoint fails, the wire carries a 3:    *)
(* event followed by the terminal finish, and the call is not retried.     *)
(***************************************************************************)
C8_ModelErrorOnWire ==
    (callFailed # None /\ cpc = "closed") =>
        /\ Len(wire) >= 2
        /\ wire[Len(wire) - 1].tag = "3"
        /\ wire[Len(wire)] = EvFinalFinish

(***************************************************************************)
(* C10: once the cancellation signal is set, openai_computer_use_agent     *)
(* starts no further computer_call or function_call action.                *)
(***************************************************************************)
C10_NoActionAfterCancel ==
    [][cancel => invocations' = invocations]_vars

(***************************************************************************)
(* C11: once the cancellation signal is set, claude_steel_agent starts no  *)
(* tool action and no model stream any more.                               *)
(***************************************************************************)
C11_ClaudeNoNewWorkAfterCancel ==
    [][cancel => (invocations' = invocations /\ streams' = streams)]_vars

\* The half of C11 that the loop keeps: no model stream is started after the signal.
C11_NoStreamAfterCancel ==
    [][cancel => streams' = streams]_vars

(***************************************************************************)
(* C12: when the break of the chunk loop has observed the cancellation     *)
(* signal, the output gathered so far from the interrupted stream is       *)
(* discarded: the step leaves base_messages as it is.                      *)
(***************************************************************************)
C12_NothingAppendedAfterCancel ==
    [][(cancel /\ bpc = "stream" /\ resp # <<>>) => base_messages' = base_messages]_vars

(***************************************************************************)
(* C13: every computer_call_output item of conversation_items has the      *)
(* call_id of a computer_call or function_call item earlier in             *)
(* conversation_items.                                                     *)
(***************************************************************************)
C13_OutputsReferToEarlierCalls ==
    \A k \in DOMAIN conversation_items :
        conversation_items[k].type = "computer_call_output" =>
            \E j \in 1..(k - 1) :
                /\ conversation_items[j].type \in {"computer_call", "function_call"}
                /\ conversation_items[j].call_id = conversation_items[k].call_id

(***************************************************************************)
(* C14: after trim_images on a conversation with N image-bearing outputs   *)
(* and retention bound K: if N <= K nothing changes; if K < N the K most   *)
(* recent of them keep their payload, the other N - K carry the minimal    *)
(* placeholder image, and the order of the items and every call_id are          *)
(* unchanged.                                                              *)
(***************************************************************************)
C14_TrimKeepsMostRecent ==
    mpc \in {"trimmed", "prepared"} =>
        LET images == ImageItems(self_items0)
            N == Len(images)
            K == num_images_to_keep
        IN  /\ Len(self_items) = Len(self_items0)
            /\ \A i \in DOMAIN self_items :
                  /\ self_items[i].type = self_items0[i].type
                  /\ self_items[i].call_id = self_items0[i].call_id
                  /\ self_items[i].output_type = self_items0[i].output_type
            /\ N <= K => self_items = self_items0
            /\ K < N =>
                  \A j \in 1..N :
                     IF j > N - K
                     THEN self_items[images[j]] = self_items0[images[j]]
                     ELSE self_items[images[j]].image_url = MINIMAL_BASE64_IMAGE
            /\ \A i \in DOMAIN self_items :
                  (\A j \in 1..N : images[j] # i) => self_items[i] = self_items0[i]

\* The same for retention bounds of at least one.
C14_TrimKeepsMostRecentPositive ==
    num_images_to_keep >= 1 => C14_TrimKeepsMostRecent

\* The number of images of the tool messages up to item c of message m.
ImageRank(msgs, m, c) ==
    Cardinality({p \in (1..m) \X (1..2) :
                    /\ p[1] < m \/ p[2] <= c
                    /\ msgs[p[1]].kind = "tool"
                    /\ p[2] \in DOMAIN msgs[p[1]].content
                    /\ msgs[p[1]].content[p[2]].type = "image"})

ImageCount(msgs) ==
    IF msgs = <<>> THEN 0 ELSE ImageRank(msgs, Len(msgs), 2)

\* Every tool message holds at most one image, as the messages the agent builds
\* from one tool result do (claude_steel_use/agent.py:335-336).
OneImageEach(msgs) ==
    \A m \in DOMAIN msgs : ImageRank(msgs, m, 2) - ImageRank(msgs, m, 0) <= 1

(***************************************************************************)
(* C15: when the tool messages, each with at most one image, hold more     *)
(* than num_images_to_keep images (and num_images_to_keep is at least 1),  *)
(* the list returned by trim_images_from_messages retains exactly the      *)
(* num_images_to_keep most recent images and has the placeholder text in   *)
(* the place of every older one.                                           *)
(***************************************************************************)
C15_KeepsMostRecentImages ==
    (/\ fpc = "returned"
     /\ keep_arg >= 1
     /\ OneImageEach(messages)
     /\ ImageCount(messages) > keep_arg) =>
        /\ Len(trimmed_messages) = Len(messages)
        /\ \A m \in DOMAIN messages :
              /\ Len(trimmed_messages[m].content) = Len(messages[m].content)
              /\ \A c \in DOMAIN messages[m].content :
                    IF messages[m].kind = "tool" /\ messages[m].content[c].type = "image"
                    THEN IF ImageRank(messages, m, c) > ImageCount(messages) - keep_arg
                         THEN trimmed_messages[m].content[c] = messages[m].content[c]
                         ELSE trimmed_messages[m].content[c] = Placeholder
                    ELSE trimmed_messages[m].content[c] = messages[m].content[c]

C17_ActionFailureIsToolResult ==
    [][(cpc = "executing" /\ cpc' # "executing") =>
          /\ cpc' = "items"
          /\ exc' = None
          /\ new_items' = Tail(new_items)
          /\ Len(conversation_items') = Len(conversation_items) + 1
          /\ Last(conversation_items').type = "computer_call_output"
          /\ Last(conversation_items').call_id = Head(new_items).call_id
          /\ \E k \in (Len(wire) + 1)..Len(wire') :
                wire'[k].tag = "a" /\ wire'[k].toolCallId = Head(new_items).call_id
          /\ \A k \in (Len(wire) + 1)..Len(wire') : wire'[k].tag # "3"]_vars


(***************************************************************************)
(* C18: in the streaming loop of browser_use_agent, while the agent is     *)
(* paused and no resume has been observed (agent._paused is true and       *)
(* _agent_resumed is false) no commentary message is yielded; every other  *)
(* dequeued item is yielded at once, whatever the pause state.             *)
(* Violated: the for loop that releases the pending messages (lines        *)
(* 360-361, and 347-348) suspends at each yield, so a pause request        *)
(* between two of its yields leaves it yielding the remaining deferred     *)
(* commentary while the agent is paused and not resumed.                   *)
(***************************************************************************)
Withheld == agent_paused /\ ~agent_resumed

YieldsCommentary ==
    /\ Len(yielded') = Len(yielded) + 1
    /\ yielded'[Len(yielded')].kind = "commentary"

\* The second half of C18: an item that is no commentary is yielded by the step
\* that handles it.
OthersYieldedAtOnce ==
    /\ (queue # <<>> /\ queue' = Tail(queue) /\ lpc' = "wait" /\ Head(queue).kind \notin {"commentary", "END"})
          => yielded' = Append(yielded, Head(queue))
    /\ (lpc = "release" /\ lpc' = "wait" /\ data.kind # "commentary")
          => yielded' = Append(yielded, data)

C18_OthersYieldedAtOnce == [][OthersYieldedAtOnce]_vars

\* C18: no commentary is yielded while paused and not resumed, and every other
\* item is yielded at once.
C18_NoCommentaryWhilePaused ==
    [][(YieldsCommentary => ~Withheld) /\ OthersYieldedAtOnce]_vars


(***************************************************************************)
(* C19: in browser_use_agent, under any interleaving of pause requests,    *)
(* resume requests, agent-loop starts and step callbacks, the deferred     *)
(* commentary messages are yielded in the order they were deferred, and    *)
(* each of them before any commentary message dequeued after it.           *)
(* Violated: line 376 yields a commentary message at once when the agent   *)
(* is not paused, whether or not older ones are still pending; the pending *)
(* ones are released only when _agent_resumed is true, and that global is  *)
(* reset by the start of another browser_use_agent (line 218) and by a     *)
(* pause, while resume_execution clears agent._paused after its sleep      *)
(* (line 147) without setting the flag again.                              *)
(***************************************************************************)
YieldedBefore(a, k) ==
    \E j \in 1..(k - 1) : yielded[j] = Commentary(a)

\* C19: a commentary message is yielded only after every deferred one that was
\* dequeued before it.
C19_DeferredBeforeNewer ==
    \A k \in DOMAIN yielded :
        yielded[k].kind = "commentary" =>
            \A a \in deferred_log : a < yielded[k].n => YieldedBefore(a, k)


(***************************************************************************)
(* C20: for any interleaving of two resume_session calls for the same      *)
(* session id that arrive within RESUME_COOLDOWN of each other, the second *)
(* possibly while the first is in progress, resume_execution takes effect  *)
(* exactly once and both calls return status "success".                    *)
(* Violated: the timestamp the cooldown reads is written only after the    *)
(* lock is taken (line 131).  A call that arrives while the first is       *)
(* suspended in wait_for passes the cooldown check, waits for the lock,    *)
(* gets it when the first call returns (0.2 s, within the 0.5 s timeout)   *)
(* and runs resume_execution a second time.                                *)
(***************************************************************************)
BothReturned == \A c \in Calls : rpc[c] = "returned"

WithinCooldown ==
    /\ call_now[1] - call_now[2] < RESUME_COOLDOWN
    /\ call_now[2] - call_now[1] < RESUME_COOLDOWN

OneEffectiveResume ==
    /\ resumes = 1
    /\ \A c \in Calls : status[c] = "success"

\* Where wait_for takes a free lock without suspending, the claim holds.
C20_OneEffectiveResumeInPlace ==
    (/\ BothReturned /\ WithinCooldown /\ controller_agent # None /\ ~wait_for_suspends
     /\ \A c \in Calls : ~last_error[c])
        => OneEffectiveResume

\* C20: two calls within the cooldown: one effective resume, two successes.
C20_OneEffectiveResume ==
    (/\ BothReturned /\ WithinCooldown /\ controller_agent # None
     /\ \A c \in Calls : ~last_error[c])
        => OneEffectiveResume


(***************************************************************************)
(* C21: pause and resume requests take effect in arrival order: once every *)
(* pause_execution_manually and resume_execution call has completed, the   *)
(* agent is paused if the last command to arrive was a pause and running   *)
(* if it was a resume, and _agent_resumed agrees with the paused flag.     *)
(* Violated: resume_execution sleeps 0.2 s (line 141) and then forces      *)
(* agent._paused = False (lines 144-147); a pause that arrives during the  *)
(* sleep is undone, and _agent_resumed stays false with the agent running. *)
(***************************************************************************)
CommandsCompleted ==
    /\ sleeping = 0
    /\ starts = 0
    /\ controller_agent = "ours"
    /\ request.cmd \in {"pause", "resume"}
    /\ request.session_id = "B"

\* C21: the last command to arrive decides the pause state, and the flags agree.
C21_LastCommandWins ==
    CommandsCompleted =>
        /\ agent_paused = (request.cmd = "pause")
        /\ agent_resumed = ~agent_paused

(***************************************************************************)
(* C22: control-plane state is per session: a resume or pause request      *)
(* addressed to session A, and the start of an agent loop for session A,   *)
(* never change the paused flag, the resumed flag or the release of the    *)
(* deferred commentary of the running loop of session B.                   *)
(* Violated: _agent_resumed is one module global (line 37) and the         *)
(* controller holds one agent (lines 40-52); resume_execution uses its     *)
(* session id for the browser registries only (lines 115-131), and         *)
(* browser_use_agent resets the global at its start (line 218).            *)
(***************************************************************************)
RequestArrives == pauses' + resumes' + starts' # pauses + resumes + starts

\* C22: a request for session A leaves the flags of the loop of session B alone.
C22_OtherSessionLeavesFlags ==
    [][(RequestArrives /\ request'.session_id = "A")
          => (agent_paused' = agent_paused /\ agent_resumed' = agent_resumed)]_vars

(***************************************************************************)
(* C26: whenever a browser_use_agent loop terminates (END, cancellation,   *)
(* too many failures, exception) the entries registered for its session id *)
(* (active_browsers, active_browser_contexts, the controller's agent and   *)
(* session binding) are removed in the loop's cleanup path.                *)
(* Violated: the finally clause of the loop is "pass" (lines 387-390) and  *)
(* nothing else removes an entry or clears the controller.                 *)
(***************************************************************************)
\* C26: after the loop of session B has ended, nothing is registered for B.
C26_UnregisteredAtEnd ==
    (lpc = "closed" /\ starts = 0) =>
        /\ active_browsers["B"] = "absent"
        /\ controller_agent # "ours"
        /\ controller_session_id # "B"

(***************************************************************************)
(* C27: at every moment there is at most one live agent loop per session   *)
(* id: a start for a session id that has a running loop replaces it or is  *)
(* rejected.                                                               *)
(* Violated: browser_use_agent looks up the session id only to reuse the   *)
(* browser (lines 225-228); it creates a new Agent and a new task (lines   *)
(* 302-321) and neither stops nor looks for the loop that is running.      *)
(***************************************************************************)
\* C27: no session id has two agent tasks running.
C27_OneLoopPerSession ==
    \A s \in Sessions : agent_tasks[s] <= 1


(***************************************************************************)
(* C24: a pause request for a session id that is unknown (no agent is      *)
(* registered, or the registered agent belongs to another session id)      *)
(* returns an error outcome and leaves the agent's paused state, the       *)
(* _agent_resumed flag and the browser registries unchanged.               *)
(***************************************************************************)
PauseForUnknown ==
    /\ pauses' = pauses + 1
    /\ request'.cmd = "pause"
    /\ (controller_agent = None \/ controller_session_id # request'.session_id)

C24_UnknownPauseIsError ==
    [][PauseForUnknown =>
          /\ pause_result' = "error"
          /\ agent_paused' = agent_paused
          /\ agent_resumed' = agent_resumed
          /\ active_browsers' = active_browsers]_vars

\* A pause for session id A was refused while the agent of session B is registered.
C24_Witness ==
    /\ pause_result = "error"
    /\ request = [cmd |-> "pause", session_id |-> "A"]
    /\ controller_agent = "ours"
    /\ controller_session_id = "B"
    /\ ~agent_paused


(***************************************************************************)
(* C23: a resume request for a session that is already resumed, or for a   *)
(* session that is unknown (no agent registered for it), is reported as    *)
(* success with an explanatory message, never as an error status or an     *)
(* HTTP error.                                                             *)
(* Violated: with no agent in the controller resume_execution returns an   *)
(* error status (lines 111-112) at both attempts, and resume_session       *)
(* returns status "error" (index.py:160-164).                              *)
(***************************************************************************)
\* C23: a resume request none of whose attempts raised returns success.
C23_ResumeReportsSuccess ==
    \A c \in Calls :
        (rpc[c] = "returned" /\ ~last_error[c]) => status[c] = "success"

(***************************************************************************)
(* C25: one resume_session request calls resume_execution at most 2 times, *)
(* with a fixed 0.2 s backoff between the attempts, and then returns or    *)
(* raises, whether the attempts fail by an error status or by raising.     *)
(***************************************************************************)
C25_BoundedRetry ==
    [][\A c \in Calls :
          attempts'[c] # attempts[c] =>
              /\ attempts'[c] = attempts[c] + 1
              /\ attempts'[c] <= 2
              /\ attempts'[c] = 2 =>
                    /\ rpc[c] = "retrying"
                    /\ clock - since[c] >= RESUME_DELAY
                    /\ rpc'[c] \in {"executing", "returned"}]_vars

\* A call has returned after two failed attempts, one of which raised.
C25_Witness ==
    \E c \in Calls :
        /\ attempts[c] = 2
        /\ rpc[c] = "returned"
        /\ status[c] = "http500"
        /\ session_locks = 0


(***************************************************************************)
(* C28: release_session is idempotent: releasing a session that has        *)
(* already been released returns a success response rather than an error,  *)
(* for every number of repeated release calls on the same session id.      *)
(* A failure of the call that is not about the state of the session (the   *)
(* client raising anything else) is re-raised for released and live        *)
(* sessions alike, and is no part of the claim.                            *)
(***************************************************************************)
C28_ReleaseIdempotent ==
    (release_call.was_released /\ release_call.client \in {"returns"} \cup StoppedMessages)
        => release_response = "success"

\* A third release of the same session, answered by the client with the error.
C28_Witness ==
    /\ releases = 3
    /\ release_call.was_released
    /\ release_call.client \in StoppedMessages
    /\ release_response = "success"
    /\ \E s \in Sessions : steel_sessions[s] = "live"

(***************************************************************************)
(* C29: the main loop of openai_computer_use_agent ends for every sequence *)
(* of model responses.  The step counter never passes MAX_STEPS + 1; once  *)
(* it exceeds MAX_STEPS no model call is made, the loop is left at its top *)
(* with the max-steps notice (the cancellation notice when the signal is   *)
(* set as well) followed by the end-of-agent message, nothing is raised    *)
(* and no 3: event is written; and every run reaches the end of the        *)
(* stream.                                                                  *)
(***************************************************************************)
MaxStepsNotice == Notice("[OPENAI-CUA] Reached max steps, stopping...")

OverCeiling == cpc = "top" /\ steps > MAX_STEPS

C29_CeilingEndsLoop ==
    /\ [](steps <= MAX_STEPS + 1)
    /\ [][OverCeiling =>
             /\ steps' = steps /\ streams' = streams /\ invocations' = invocations
             /\ cpc' # cpc =>
                   /\ cpc' = "end"
                   /\ exc' = None
                   /\ ~cancel => log' = log \o <<MaxStepsNotice, AgentEnded>>
                   /\ \A k \in (Len(wire) + 1)..Len(wire') : wire'[k].tag # "3"]_vars
    /\ [][(cpc = "end" /\ cpc' = "closed") =>
             \A k \in (Len(wire) + 1)..Len(wire') : wire'[k].tag # "3"]_vars
    /\ <>(cpc = "closed")

C29_Witness ==
    /\ cpc = "closed"
    /\ steps = MAX_STEPS + 1
    /\ ~cancel
    /\ exc = None
    /\ Len(log) >= 2
    /\ SubSeq(log, Len(log) - 1, Len(log)) = <<MaxStepsNotice, AgentEnded>>
    /\ \A k \in DOMAIN wire : wire[k].tag # "3"

(***************************************************************************)
(* C30: when a response of the model holds a final assistant text and no   *)
(* action request, openai_computer_use_agent makes no further model call.  *)
(***************************************************************************)
\* The items at the end of the conversation that came from the model and asked
\* for no action: every action appends its computer_call_output after them.
RECURSIVE TrailingText(_)
TrailingText(cs) ==
    IF cs = <<>> THEN <<>>
    ELSE IF cs[Len(cs)].type \in {"message", "reasoning"}
              \/ (cs[Len(cs)].type = "assistant" /\ steps > 0)
         THEN Append(TrailingText(SubSeq(cs, 1, Len(cs) - 1)), cs[Len(cs)])
         ELSE <<>>

\* The last response held a text and no computer_call or function_call item.
LastResponseIsFinalText ==
    /\ steps > 0
    /\ \E k \in DOMAIN TrailingText(conversation_items) :
          TrailingText(conversation_items)[k].type \in {"message", "assistant"}

C30_FinalTextEndsLoop ==
    [][(cpc = "top" /\ LastResponseIsFinalText) => steps' = steps]_vars

(***************************************************************************)
(* C31: a configuration error of openai_computer_use_agent (no API key, or *)
(* a model name outside the valid set) is answered before the response     *)
(* stream is started: it never shows as events of the wire stream.         *)
(***************************************************************************)
ConfigErrors == {"No OPENAI_API_KEY configured", "Invalid model name"}

C31_ConfigErrorFailsFast ==
    exc \in ConfigErrors => wire = <<>>

(***************************************************************************)
(* C32: stream_vercel_format announces a streamed tool call once: after    *)
(* the 9: event of a call, a later fragment for the same index adds no     *)
(* second 9: event with that id.  The sources considered deliver streamed  *)
(* calls only.                                                             *)
(***************************************************************************)
OnlyStreamedCalls == \A i \in DOMAIN log' : log'[i].tool_calls = <<>>

Announced(id) == \E j \in DOMAIN wire : wire[j].tag = "9" /\ wire[j].toolCallId = id

C32_OneAnnouncePerId ==
    [][(Consumes /\ IsFragmentChunk(Last(log')) /\ OnlyStreamedCalls) =>
          \A k \in DOMAIN NewEvents :
              NewEvents[k].tag = "9" => ~Announced(NewEvents[k].toolCallId)]_vars

(***************************************************************************)
(* C33: in one run of openai_computer_use_agent the number of steps        *)
(* started, each of which calls the model, never exceeds MAX_STEPS.        *)
(***************************************************************************)
C33_StepsWithinMax ==
    steps <= MAX_STEPS

(***************************************************************************)
(* C34: when resume_session answers with status "success" (is_resumed      *)
(* true), a resume_execution call has resumed the agent, or one is in      *)
(* progress for another request of the session; a failed attempt never     *)
(* makes a later request be answered as already resumed.                   *)
(***************************************************************************)
InProgress(c) == rpc[c] \in {"acquiring", "executing", "retrying"}

C34_SuccessMeansResumed ==
    [][\A c \in Calls :
          (status'[c] = "success" /\ status[c] # "success") =>
              \/ resumes' > 0
              \/ \E d \in Calls \ {c} : InProgress(d)]_vars

(***************************************************************************)
(* C35: the resume lock of a session gives mutual exclusion and is always  *)
(* released.  At most one resume_session call is between its first         *)
(* resume_execution attempt and its answer, and it is the holder of the    *)
(* lock; a call that has answered (success, error status, exception or     *)
(* lock timeout) holds no lock, and the lock is free whenever no call is   *)
(* at its attempts.                                                        *)
(***************************************************************************)
Attempting(c) == rpc[c] \in {"executing", "retrying"}

C35_LockExcludesAndIsReleased ==
    /\ \A c, d \in Calls : (Attempting(c) /\ Attempting(d)) => c = d
    /\ \A c \in Calls : Attempting(c) => session_locks = c
    /\ \A c \in Calls : rpc[c] = "returned" => session_locks # c
    /\ (\A c \in Calls : ~Attempting(c)) => session_locks = 0

C35_Witness ==
    \E c, d \in Calls :
        /\ c # d
        /\ rpc[c] = "returned"
        /\ status[c] = "http500"
        /\ attempts[c] = 2
        /\ Attempting(d)
        /\ session_locks = d
        /\ clock < RESUME_COOLDOWN

(***************************************************************************)
(* C36: ConversationManager.trim_images changes nothing but the image      *)
(* payload of the items it trims: the number of items is kept, and every   *)
(* item is what it was before except, possibly, for its output.image_url.  *)
(***************************************************************************)
C36_TrimChangesImageOnly ==
    mpc \in {"trimmed", "prepared"} =>
        /\ Len(self_items) = Len(self_items0)
        /\ \A i \in DOMAIN self_items :
              [self_items[i] EXCEPT !.image_url = self_items0[i].image_url] = self_items0[i]

(***************************************************************************)
(* C37: browser_use_agent loses no deferred commentary: when the loop ends *)
(* at the end marker of its queue after a resume request has been          *)
(* processed, no deferred message is still waiting to be yielded.          *)
(***************************************************************************)
EndsAtMarker == lpc = "wait" /\ lpc' = "closed" /\ queue # <<>> /\ queue' = Tail(queue)

C37_NoDeferredLost ==
    [][(EndsAtMarker /\ agent_resumed) => pending_special_messages = <<>>]_vars

(***************************************************************************)
(* C38: every non-empty text an agent yields into stream_vercel_format, as *)
(* a message with a string content or as a plain string, gives a 0: event  *)
(* that carries the text.                                                  *)
(***************************************************************************)
YieldsText(c) == c.kind \in {"ai", "str"} /\ ~c.content.isList /\ c.content.text # ""

C38_TextIsDelivered ==
    [][(Consumes /\ YieldsText(Last(log'))) =>
          \E k \in DOMAIN NewEvents :
              NewEvents[k] = Ev0(JsonDumps(Last(log').content.text))]_vars

(***************************************************************************)
(* C39: the streaming loop of browser_use_agent waits on its queue with a  *)
(* bound and sees the cancellation signal after every poll timeout and     *)
(* after every dequeued item.  With the signal set, an iteration never     *)
(* leads back to queue.get(): at most the item of the wait in progress is  *)
(* dequeued; at the test of the signal the loop stops the agent and exits  *)
(* with nothing dequeued and nothing yielded; and the loop does exit.      *)
(***************************************************************************)
LoopDequeues == lpc = "wait" /\ queue # <<>> /\ queue' = Tail(queue)

====
